---- MODULE Spec2Model ----
(***************************************************************************)
(* Trace correlation of langsmith-bedrock-agents: observe_response drains  *)
(* the completion stream of one agent invocation, accumulates the chunk    *)
(* text and hands every trace element to process_trace, which starts,      *)
(* annotates and ends OpenTelemetry spans kept in the module-level dict    *)
(* active_spans (src/observability/__init__.py).                           *)
(*                                                                         *)
(* Python strings are sequences of one-character strings, so that the      *)
(* f-string keys and key.startswith(...) are computed, not assumed.        *)
(***************************************************************************)
EXTENDS Integers, Sequences, FiniteSets, TLC

VARIABLES
    pc,            \* where the caller of observe_response is
    inv,           \* number of observe_response calls made so far
    steps,         \* stream elements consumed so far, over all calls
    output,        \* observe_response's local `output`
    event,         \* observe_response's loop variable `event`
    active_spans,  \* the dict active_spans, in insertion order
    spans,         \* every span tracer.start_span has returned, in start order
    root,          \* what observe_response wrote on the current (root) span
    seen,          \* history: per span, the terminal events the stream has
                   \* shown while the span was registered
    wrapper        \* the call of the openinference example's instrumented
                   \* function that is under way, and its root span

vars ==
    <<pc, inv, steps, output, event, active_spans, spans, root, seen, wrapper>>

(***************************************************************************)
(* Bounds of the model.                                                    *)
(***************************************************************************)
MaxInvocations == 2
MaxSteps == 3

(***************************************************************************)
(* Strings.                                                                *)
(***************************************************************************)
Empty == << >>
S_routing == <<"_", "r", "o", "u", "t", "i", "n", "g", "_">>
S_orchestration ==
    <<"_", "o", "r", "c", "h", "e", "s", "t", "r", "a", "t", "i", "o", "n", "_">>
S_tool == <<"_", "t", "o", "o", "l", "_">>
S_underscore == <<"_">>

\* str.startswith
StartsWith(s, p) == Len(p) <= Len(s) /\ SubSeq(s, 1, Len(p)) = p

(***************************************************************************)
(* Input values the stream draws from.                                     *)
(***************************************************************************)
AgentIds == {<<"a">>}
SessionIds == {<<"s">>}
RoutingTraceIds == {<<"t">>}
TraceIds == {<<"t">>, <<"u">>}
ToolNames == {<<"x">>, <<"y">>}
SameStepTools == {<<"x">>}
ActionGroups == {"g1"}
ResultTexts == {"r1"}
FinalTexts == {"hi"}
ModelNames == {"m1"}
Fragments == {<<"h">>}

(***************************************************************************)
(* Attribute values.  A string-valued attribute holds a sequence of        *)
(* strings (a key built from characters, or an opaque text as one token);  *)
(* a numeric attribute holds an integer.  The two kinds are kept in two    *)
(* maps of the span, `attrs` and `nums`.                                   *)
(***************************************************************************)
Lit(s) == <<s>>

B(b) == IF b THEN 1 ELSE 0

\* dict-style update of a function: f[k] = v
Put(f, k, v) == [x \in (DOMAIN f) \cup {k} |-> IF x = k THEN v ELSE f[x]]

NoNums == [x \in {} |-> 0]

(***************************************************************************)
(* The correlator's state while one handler runs: st.active is the dict    *)
(* active_spans as the sequence of its items in insertion order, st.spans  *)
(* the spans started so far.  A registry item is [key, span], span being   *)
(* the index in st.spans of the object the dict holds.                     *)
(***************************************************************************)
Keys(active) == {active[i].key : i \in DOMAIN active}

\* key in active_spans
Contains(active, key) == key \in Keys(active)

\* active_spans[key]
Lookup(active, key) ==
    active[CHOOSE i \in DOMAIN active : active[i].key = key].span

\* active_spans[key] = span, for a key that is not in the dict
DictSet(active, key, span) == Append(active, [key |-> key, span |-> span])

\* del active_spans[key]
DictDel(active, key) == SelectSeq(active, LAMBDA it : it.key # key)

\* the SDK's clock, read at start_span and at end: the number of spans
\* started and ended so far
RECURSIVE Ends(_)
Ends(ss) == IF ss = << >> THEN 0 ELSE B(ss[1].ended > 0) + Ends(Tail(ss))
Now(st) == Len(st.spans) + Ends(st.spans)

\* variant: a span once started under the key is registered again instead of
\* a new one being started
StartSpan_Reuses(st, key, name, attributes) ==
    IF \E i \in DOMAIN st.spans : st.spans[i].key = key
    THEN [st EXCEPT !.active =
             DictSet(@, key, CHOOSE i \in DOMAIN st.spans : st.spans[i].key = key)]
    ELSE LET span == [key |-> key, name |-> name, inv |-> st.inv,
                      attrs |-> attributes, nums |-> NoNums,
                      start |-> Now(st) + 1, end |-> 0,
                      ended |-> 0, late |-> {}]
         IN  [st EXCEPT !.spans = Append(@, span),
                        !.active = DictSet(@, key, Len(st.spans) + 1)]

\* tracer.start_span(name=..., attributes=...); active_spans[key] = span
StartSpan(st, key, name, attributes) ==
    LET span == [key |-> key, name |-> name, inv |-> st.inv,
                 attrs |-> attributes, nums |-> NoNums,
                 start |-> Now(st) + 1, end |-> 0,
                 ended |-> 0, late |-> {}]
    IN  [st EXCEPT !.spans = Append(@, span),
                   !.active = DictSet(@, key, Len(st.spans) + 1)]

\* span.set_attribute(k, v) with a string value: recorded while the span is
\* recording; on an ended span the SDK drops the write with a warning
SetAttribute(st, i, k, v) ==
    IF st.spans[i].ended = 0
    THEN [st EXCEPT !.spans[i].attrs = Put(@, k, v)]
    ELSE [st EXCEPT !.spans[i].late = @ \cup {k}]

\* span.set_attribute(k, n) with a numeric value
SetNumber(st, i, k, n) ==
    IF st.spans[i].ended = 0
    THEN [st EXCEPT !.spans[i].nums = Put(@, k, n)]
    ELSE [st EXCEPT !.spans[i].late = @ \cup {k}]

\* span.set_attribute(k, None): the SDK rejects the value, nothing is stored
SetNone(st, i, k) ==
    IF st.spans[i].ended = 0
    THEN st
    ELSE [st EXCEPT !.spans[i].late = @ \cup {k}]

\* span.end(): the first call sets the end time, a repeated call is dropped
\* by the SDK with a warning
EndSpan(st, i) ==
    [st EXCEPT !.spans[i].ended = @ + 1,
               !.spans[i].end = IF st.spans[i].ended = 0 THEN Now(st) + 1 ELSE @]

(***************************************************************************)
(* handle_model_invoke_input(span, model_invoke_data).  mi.json is what    *)
(* json.loads(prompt_text) gives: "fail" (it raises), "scalar" (a JSON     *)
(* number, on which the test  "messages" in prompt_json  raises TypeError),*)
(* "nomessages" (a JSON object without a "messages" member) or "messages"  *)
(* (a JSON object whose "messages" member is the array mi.messages).  An   *)
(* item of the array is a JSON object (dict = TRUE) with or without the    *)
(* members role and content, or another JSON value (dict = FALSE), on      *)
(* which msg.get raises AttributeError.  mi.given is the set of keys that  *)
(* model_invoke_data["inferenceConfiguration"] holds, empty when the       *)
(* member is absent.                                                       *)
(***************************************************************************)
\* f"gen_ai.prompt.{i}.role" and f"gen_ai.prompt.{i}.content"
PromptKey(k, field) == "gen_ai.prompt." \o ToString(k) \o field

\* lines 224-227: one message of the array, at index k
SetMessage(st, i, k, msg) ==
    SetAttribute(
        SetAttribute(st, i, PromptKey(k, ".role"),
                     Lit(IF msg.hasRole THEN msg.role ELSE "user")),
        i, PromptKey(k, ".content"),
        Lit(IF msg.hasContent THEN msg.content ELSE ""))

\* lines 223-227: the for loop from the item at position k on; the result
\* is [st, raised], raised when an item is not a JSON object
RECURSIVE ExpandMessages(_, _, _, _)
ExpandMessages(st, i, msgs, k) ==
    IF k > Len(msgs) THEN [st |-> st, raised |-> FALSE]
    ELSE IF ~msgs[k].dict THEN [st |-> st, raised |-> TRUE]
    ELSE ExpandMessages(SetMessage(st, i, k - 1, msgs[k]), i, msgs, k + 1)

\* variant: the except branch records nothing
PromptFallback_Nothing(st, i, mi) == st

\* lines 228-231: the except branch records the whole prompt as one user
\* message
PromptFallback(st, i, mi) ==
    SetAttribute(
        SetAttribute(st, i, "gen_ai.prompt.0.content", Lit(mi.text)),
        i, "gen_ai.prompt.0.role", Lit("user"))

\* the except branch runs on what the loop had written before it raised
AfterExpansion(r, i, mi) ==
    IF r.raised THEN PromptFallback(r.st, i, mi) ELSE r.st

\* lines 220-231: the try statement
PromptMessages(st, i, mi) ==
    IF mi.json \in {"fail", "scalar"} THEN PromptFallback(st, i, mi)
    ELSE IF mi.json = "nomessages" THEN st
    ELSE AfterExpansion(ExpandMessages(st, i, mi.messages, 1), i, mi)

\* inference_config.get(k, 0), v being the value of the key when present
ConfigGet(mi, k, v) == IF k \in mi.given THEN v ELSE 0

\* variant: the model identifier is not recorded
handle_model_invoke_input_NoModel(st, i, mi) ==
    LET s2 == SetAttribute(st, i, "gen_ai.prompt.content", Lit(mi.text))
        s3 == SetAttribute(s2, i, "langchain.prompt.content", Lit(mi.text))
    IN  PromptMessages(SetAttribute(s3, i, "langsmith.span.kind", Lit("LLM")),
                       i, mi)

handle_model_invoke_input(st, i, mi) ==
    LET s1 == SetAttribute(st, i, "gen_ai.response.model", Lit(mi.foundationModel))
        s2 == SetAttribute(s1, i, "gen_ai.prompt.content", Lit(mi.text))
        s3 == SetAttribute(s2, i, "langchain.prompt.content", Lit(mi.text))
        s4 == SetAttribute(s3, i, "langsmith.span.kind", Lit("LLM"))
        s5 == SetAttribute(s4, i, "gen_ai.request.model", Lit(mi.foundationModel))
        s6 == PromptMessages(s5, i, mi)
        s7 == SetNumber(s6, i, "gen_ai.request.temperature",
                        ConfigGet(mi, "temperature", mi.temperature))
        s8 == SetNumber(s7, i, "gen_ai.request.top_k",
                        ConfigGet(mi, "topK", mi.topK))
    IN  SetNumber(s8, i, "gen_ai.request.top_p", ConfigGet(mi, "topP", mi.topP))

(***************************************************************************)
(* handle_model_invoke_output(span, model_data), for a payload without a   *)
(* rawResponse member.  mo.given is the set of keys that                   *)
(* model_data["metadata"]["usage"] holds, empty when metadata or usage is  *)
(* absent.                                                                 *)
(***************************************************************************)
\* metadata.get("usage", {}).get(k, 0), v being the value of the key when
\* present
UsageGet(mo, k, v) == IF k \in mo.given THEN v ELSE 0

\* variant: the total is the prompt count alone
handle_model_invoke_output_TotalIsPrompt(st, i, mo) ==
    LET input_tokens == UsageGet(mo, "inputTokens", mo.inputTokens)
        output_tokens == UsageGet(mo, "outputTokens", mo.outputTokens)
        s1 == SetNumber(st, i, "gen_ai.usage.prompt_tokens", input_tokens)
        s2 == SetNumber(s1, i, "gen_ai.usage.completion_tokens", output_tokens)
    IN  SetNumber(s2, i, "gen_ai.usage.total_tokens", input_tokens)

handle_model_invoke_output(st, i, mo) ==
    LET input_tokens == UsageGet(mo, "inputTokens", mo.inputTokens)
        output_tokens == UsageGet(mo, "outputTokens", mo.outputTokens)
        total_tokens == input_tokens + output_tokens
        s1 == SetNumber(st, i, "gen_ai.usage.prompt_tokens", input_tokens)
        s2 == SetNumber(s1, i, "gen_ai.usage.completion_tokens", output_tokens)
    IN  SetNumber(s2, i, "gen_ai.usage.total_tokens", total_tokens)

(***************************************************************************)
(* extract_agent_id_from_arn.  Find is str.find: the 0-based index of the  *)
(* first occurrence of sub in s, or -1.  The result is [some, id]: None    *)
(* is some = FALSE.                                                        *)
(***************************************************************************)
S_marker == <<":", "a", "g", "e", "n", "t", "-", "a", "l", "i", "a", "s", "/">>

Find(s, sub) ==
    LET hits == {k \in 0..(Len(s) - Len(sub)) :
                    SubSeq(s, k + 1, k + Len(sub)) = sub}
    IN  IF hits = {} THEN -1
        ELSE CHOOSE k \in hits : \A j \in hits : k <= j

\* s[pos:]
Slice(s, pos) == SubSeq(s, pos + 1, Len(s))

extract_agent_id_from_arn(arn) ==
    LET pos == Find(arn, S_marker)
    IN  IF pos > 0
        THEN LET arn2 == Slice(arn, pos)
                 pos2 == Find(arn2, <<"/">>)
             IN  IF pos2 > 0
                 THEN [some |-> TRUE, id |-> Slice(arn2, pos2 + 1)]
                 ELSE [some |-> FALSE, id |-> Empty]
        ELSE [some |-> FALSE, id |-> Empty]

(***************************************************************************)
(* routing_trace(trace_run_id, agent_id, trace); rd is the payload         *)
(* trace["trace"]["routingClassifierTrace"].                               *)
(***************************************************************************)
RoutingSpanId(trace_run_id, rd) == trace_run_id \o S_routing \o rd.traceId

\* variant: the span is ended but its key stays in the registry
\* lines 94-96 and 193-195: the completion attributes of a finalResponse
SetCompletion(st, i, text, role) ==
    LET s1 == SetAttribute(st, i, "gen_ai.completion.content", Lit(text))
        s2 == SetAttribute(s1, i, "gen_ai.completion.0.content", Lit(text))
    IN  SetAttribute(s2, i, "gen_ai.completion.0.role", Lit(role))

\* lines 98-101 and 197-200: if span_id in active_spans: span.end(); del
EndAndRemove(st, i, span_id) ==
    IF Contains(st.active, span_id)
    THEN [EndSpan(st, i) EXCEPT !.active = DictDel(@, span_id)]
    ELSE st

\* variant of lines 98-101: the span is ended but its key is not deleted
EndAndKeep(st, i, span_id) ==
    IF Contains(st.active, span_id) THEN EndSpan(st, i) ELSE st

RoutingFinalResponse_KeepsKey(st, i, span_id, rd) ==
    EndAndKeep(SetCompletion(st, i, rd.finalText, "agent"), i, span_id)

RoutingFinalResponse(st, i, span_id, rd) ==
    EndAndRemove(SetCompletion(st, i, rd.finalText, "agent"), i, span_id)

\* line 107: set_attribute("gen_ai.collaborator.agent_id", collab_agent_id)
SetCollaboratorId(st, i, collab_agent_id) ==
    IF collab_agent_id.some
    THEN SetAttribute(st, i, "gen_ai.collaborator.agent_id", collab_agent_id.id)
    ELSE SetNone(st, i, "gen_ai.collaborator.agent_id")

RoutingCollaborator(st, i, rd) ==
    SetAttribute(SetCollaboratorId(st, i, extract_agent_id_from_arn(rd.arn)),
                 i, "gen_ai.collaborator.name", Lit(rd.collabName))

\* lines 66-79: if span_id not in active_spans: start and register the span
RoutingGetOrCreate(st, span_id, agent_id) ==
    IF ~Contains(st.active, span_id)
    THEN StartSpan(st, span_id, Lit("agent_routing"),
             [k \in {"langsmith.span.kind", "gen_ai.operation.name",
                     "gen_ai.system", "gen_ai.agent.id",
                     "gen_ai.trace_id", "gen_ai.component"} |->
                CASE k = "langsmith.span.kind" -> Lit("CHAIN")
                  [] k = "gen_ai.operation.name" -> Lit("route_agent")
                  [] k = "gen_ai.system" -> Lit("aws.bedrock")
                  [] k = "gen_ai.agent.id" -> agent_id
                  [] k = "gen_ai.trace_id" -> span_id
                  [] k = "gen_ai.component" -> Lit("routing")])
    ELSE st

\* lines 83-84 and 152-153: if "modelInvocationInput" in data
ModelInvocationInput(st, i, d) ==
    IF d.hasMI THEN handle_model_invoke_input(st, i, d.mi) ELSE st

\* lines 87-88 and 156-157: if "modelInvocationOutput" in data
ModelInvocationOutput(st, i, d) ==
    IF d.hasMO THEN handle_model_invoke_output(st, i, d.mo) ELSE st

\* lines 92-101: if "finalResponse" in observation
RoutingObservationFinal(st, i, span_id, rd) ==
    IF rd.hasFinal THEN RoutingFinalResponse(st, i, span_id, rd) ELSE st

\* lines 103-108: if "agentCollaboratorInvocationOutput" in observation
RoutingObservationCollaborator(st, i, rd) ==
    IF rd.hasCollab THEN RoutingCollaborator(st, i, rd) ELSE st

\* lines 81-108, on the registry after the get-or-create; span is the local
\* `span` of line 81
RoutingHandle(st, span, span_id, rd) ==
    RoutingObservationCollaborator(
        RoutingObservationFinal(
            ModelInvocationOutput(ModelInvocationInput(st, span, rd), span, rd),
            span, span_id, rd),
        span, rd)

RoutingFrom(st, span_id, rd) ==
    RoutingHandle(st, Lookup(st.active, span_id), span_id, rd)

routing_trace(st, trace_run_id, agent_id, rd) ==
    RoutingFrom(RoutingGetOrCreate(st, RoutingSpanId(trace_run_id, rd), agent_id),
                RoutingSpanId(trace_run_id, rd), rd)

(***************************************************************************)
(* orchestration_trace(trace_run_id, agent_id, trace); od is the payload   *)
(* trace["trace"]["orchestrationTrace"].  od.invocation is "none" (no      *)
(* invocationInput), "actionGroup" (invocationInput holding an             *)
(* actionGroupInvocationInput) or "other" (an invocationInput without      *)
(* one, for which both .get chains give "").                               *)
(***************************************************************************)
OrchestrationSpanId(trace_run_id, od) ==
    trace_run_id \o S_orchestration \o od.traceId

ToolPrefix(span_id) == span_id \o S_tool

\* variant: every key holding "_tool_" matches, whatever its parent
ToolMatches_AnyParent(active, span_id) ==
    {k \in DOMAIN active : Find(active[k].key, S_tool) >= 0}

\* the items of list(active_spans.items()) whose key starts with the prefix,
\* by position
ToolMatches(active, span_id) ==
    {k \in DOMAIN active : StartsWith(active[k].key, ToolPrefix(span_id))}

\* variant: the scan takes the last match in dict order
FirstMatch_Last(active, span_id) ==
    CHOOSE k \in ToolMatches(active, span_id) :
        \A j \in ToolMatches(active, span_id) : k >= j

\* the item at which the for loop breaks: the first match in dict order
FirstMatch(active, span_id) ==
    CHOOSE k \in ToolMatches(active, span_id) :
        \A j \in ToolMatches(active, span_id) : k <= j

\* variant: a tool span is started whether or not the key is registered
OrchestrationInvocationInput_Always(st, span_id, od) ==
    LET tool_name == IF od.invocation = "actionGroup" THEN od.function ELSE Empty
        action_group ==
            IF od.invocation = "actionGroup" THEN Lit(od.actionGroupName)
            ELSE Empty
    IN  StartSpan(st, ToolPrefix(span_id) \o tool_name,
                  <<"tool_execution_">> \o tool_name,
                  [k \in {"langsmith.span.kind", "gen_ai.tool.name",
                          "gen_ai.action_group"} |->
                     CASE k = "langsmith.span.kind" -> Lit("TOOL")
                       [] k = "gen_ai.tool.name" -> tool_name
                       [] k = "gen_ai.action_group" -> action_group])

OrchestrationInvocationInput(st, span_id, od) ==
    LET tool_name == IF od.invocation = "actionGroup" THEN od.function ELSE Empty
        action_group ==
            IF od.invocation = "actionGroup" THEN Lit(od.actionGroupName)
            ELSE Empty
        tool_span_id == ToolPrefix(span_id) \o tool_name
    IN  IF ~Contains(st.active, tool_span_id)
        THEN StartSpan(st, tool_span_id, <<"tool_execution_">> \o tool_name,
                 [k \in {"langsmith.span.kind", "gen_ai.tool.name",
                         "gen_ai.action_group"} |->
                    CASE k = "langsmith.span.kind" -> Lit("TOOL")
                      [] k = "gen_ai.tool.name" -> tool_name
                      [] k = "gen_ai.action_group" -> action_group])
        ELSE st

\* lines 186-189, for the item it = (key, tool_span) at which the scan stops
CloseTool(st, it, od) ==
    [EndSpan(SetAttribute(st, it.span, "gen_ai.tool.output", Lit(od.resultText)),
             it.span)
        EXCEPT !.active = DictDel(@, it.key)]

\* variant of lines 186-189 without line 188
CloseToolKeepingKey(st, it, od) ==
    EndSpan(SetAttribute(st, it.span, "gen_ai.tool.output", Lit(od.resultText)),
            it.span)

\* variant of lines 186-189 without line 186
CloseToolWithoutText(st, it, od) ==
    [EndSpan(st, it.span) EXCEPT !.active = DictDel(@, it.key)]

\* variant: the matched span is ended but its key stays in the registry
OrchestrationToolResult_KeepsKey(st, span_id, od) ==
    IF ToolMatches(st.active, span_id) = {}
    THEN st
    ELSE CloseToolKeepingKey(st, st.active[FirstMatch(st.active, span_id)], od)

\* variant: the matched span is ended without the result text
OrchestrationToolResult_NoText(st, span_id, od) ==
    IF ToolMatches(st.active, span_id) = {}
    THEN st
    ELSE CloseToolWithoutText(st, st.active[FirstMatch(st.active, span_id)], od)

\* variant: a result that matches no key is written on the orchestration span
OrchestrationToolResult_OnParent(st, span_id, od) ==
    IF ToolMatches(st.active, span_id) = {}
    THEN SetAttribute(st, Lookup(st.active, span_id), "gen_ai.tool.output",
                      Lit(od.resultText))
    ELSE CloseTool(st, st.active[FirstMatch(st.active, span_id)], od)

OrchestrationToolResult(st, span_id, od) ==
    IF ToolMatches(st.active, span_id) = {}
    THEN st
    ELSE CloseTool(st, st.active[FirstMatch(st.active, span_id)], od)

\* variant: the completion is recorded but the span is not ended
OrchestrationFinalResponse_KeepsOpen(st, i, span_id, od) ==
    SetCompletion(st, i, od.finalText, "assistant")

\* variant: the tool children of the key leave the registry with the span
OrchestrationFinalResponse_DropsChildren(st, i, span_id, od) ==
    [EndAndRemove(SetCompletion(st, i, od.finalText, "assistant"), i, span_id)
        EXCEPT !.active =
            SelectSeq(@, LAMBDA it : ~StartsWith(it.key, ToolPrefix(span_id)))]

OrchestrationFinalResponse(st, i, span_id, od) ==
    EndAndRemove(SetCompletion(st, i, od.finalText, "assistant"), i, span_id)

\* variant: a span is started and registered whether or not the key is there
OrchestrationGetOrCreate_Always(st, span_id, agent_id, trace_id) ==
    StartSpan([st EXCEPT !.active = DictDel(@, span_id)], span_id,
              Lit("agent_orchestration"),
              [k \in {"langsmith.span.kind", "gen_ai.agent.id"} |->
                  IF k = "gen_ai.agent.id" THEN agent_id ELSE Lit("CHAIN")])

\* lines 135-148: if span_id not in active_spans: start and register the span
OrchestrationGetOrCreate(st, span_id, agent_id, trace_id) ==
    IF ~Contains(st.active, span_id)
    THEN StartSpan(st, span_id, Lit("agent_orchestration"),
             [k \in {"langsmith.span.kind", "gen_ai.operation.name",
                     "gen_ai.system", "gen_ai.agent.id",
                     "gen_ai.trace_id", "gen_ai.component"} |->
                CASE k = "langsmith.span.kind" -> Lit("CHAIN")
                  [] k = "gen_ai.operation.name" -> Lit("orchestrate_agent")
                  [] k = "gen_ai.system" -> Lit("aws.bedrock")
                  [] k = "gen_ai.agent.id" -> agent_id
                  [] k = "gen_ai.trace_id" -> trace_id
                  [] k = "gen_ai.component" -> Lit("orchestration")])
    ELSE st

\* lines 124-175, the handler up to `if "observation" in orchestration_data`:
\* [st, span], span being the local `span` of line 150
\* lines 160-175: if "invocationInput" in orchestration_data
OrchestrationInvocation(st, span_id, od) ==
    IF od.invocation # "none"
    THEN OrchestrationInvocationInput(st, span_id, od) ELSE st

\* lines 150-175, on the registry after the get-or-create
OrchestrationHandle(st, span, span_id, od) ==
    [st |-> OrchestrationInvocation(
                ModelInvocationOutput(ModelInvocationInput(st, span, od), span, od),
                span_id, od),
     span |-> span]

OrchestrationFrom(st, span_id, od) ==
    OrchestrationHandle(st, Lookup(st.active, span_id), span_id, od)

OrchestrationBeforeObservation(st, trace_run_id, agent_id, od) ==
    OrchestrationFrom(
        OrchestrationGetOrCreate(st, OrchestrationSpanId(trace_run_id, od),
                                 agent_id, od.traceId),
        OrchestrationSpanId(trace_run_id, od), od)

\* lines 180-189: if "actionGroupInvocationOutput" in observation
OrchestrationObservationResult(st, span_id, od) ==
    IF od.hasResult THEN OrchestrationToolResult(st, span_id, od) ELSE st

\* lines 191-200: if "finalResponse" in observation
OrchestrationObservationFinal(st, span, span_id, od) ==
    IF od.hasFinal THEN OrchestrationFinalResponse(st, span, span_id, od) ELSE st

\* lines 177-200, b being the handler's state at line 177
OrchestrationObservation(b, span_id, od) ==
    OrchestrationObservationFinal(
        OrchestrationObservationResult(b.st, span_id, od), b.span, span_id, od)

orchestration_trace(st, trace_run_id, agent_id, od) ==
    OrchestrationObservation(
        OrchestrationBeforeObservation(st, trace_run_id, agent_id, od),
        OrchestrationSpanId(trace_run_id, od), od)

(***************************************************************************)
(* process_trace(trace).  tr.missing names a required member the element   *)
(* lacks (agentId, agentAliasId, trace), for which the subscript raises    *)
(* KeyError before anything is done, or is "none".  The result is          *)
(* [st, raised].                                                           *)
(***************************************************************************)
TraceRunId(tr) == tr.agentId \o S_underscore \o tr.sessionId

\* lines 50-51
AfterRouting(st, tr) ==
    IF tr.routing.present
    THEN routing_trace(st, TraceRunId(tr), tr.agentId, tr.routing)
    ELSE st

\* lines 52-53
AfterOrchestration(st, tr) ==
    IF tr.orchestration.present
    THEN orchestration_trace(st, TraceRunId(tr), tr.agentId, tr.orchestration)
    ELSE st

process_trace(st, tr) ==
    IF tr.missing # "none"
    THEN [st |-> st, raised |-> TRUE]
    ELSE [st |-> AfterOrchestration(AfterRouting(st, tr), tr), raised |-> FALSE]

(***************************************************************************)
(* The stream elements the model draws from.  An element carries a chunk   *)
(* member or a trace member; a trace payload is built from the empty       *)
(* payload by adding sub-shapes.                                           *)
(***************************************************************************)
\* a model-invocation-input whose prompt is not JSON and that has no
\* inferenceConfiguration
PlainInput(m) ==
    [foundationModel |-> m, text |-> "p", json |-> "fail", messages |-> << >>,
     given |-> {}, temperature |-> 0, topK |-> 0, topP |-> 0]

ModelInputs == {PlainInput(m) : m \in ModelNames}
ModelOutputs ==
    {[given |-> {"inputTokens", "outputTokens"},
      inputTokens |-> 12, outputTokens |-> 34]}
CollaboratorArns == {<<"r">> \o S_marker \o <<"A", "/", "Z">>}

NoRouting ==
    [present |-> FALSE, traceId |-> Empty,
     hasMI |-> FALSE, mi |-> CHOOSE m \in ModelInputs : TRUE,
     hasMO |-> FALSE, mo |-> CHOOSE m \in ModelOutputs : TRUE,
     hasRationale |-> FALSE, rationale |-> "",
     hasFinal |-> FALSE, finalText |-> "",
     hasCollab |-> FALSE, collabName |-> "", arn |-> Empty]

NoOrchestration ==
    [present |-> FALSE, traceId |-> Empty,
     hasMI |-> FALSE, mi |-> CHOOSE m \in ModelInputs : TRUE,
     hasMO |-> FALSE, mo |-> CHOOSE m \in ModelOutputs : TRUE,
     hasRationale |-> FALSE, rationale |-> "",
     invocation |-> "none", function |-> Empty, actionGroupName |-> "",
     hasResult |-> FALSE, resultText |-> "",
     hasFinal |-> FALSE, finalText |-> ""]

Payload(base, tid) == [base EXCEPT !.present = TRUE, !.traceId = tid]
WithMI(p, mi) == [p EXCEPT !.hasMI = TRUE, !.mi = mi]
WithMO(p, mo) == [p EXCEPT !.hasMO = TRUE, !.mo = mo]
WithFinal(p, text) == [p EXCEPT !.hasFinal = TRUE, !.finalText = text]
WithCollab(p, name, arn) ==
    [p EXCEPT !.hasCollab = TRUE, !.collabName = name, !.arn = arn]
WithTool(p, tool, ag) ==
    [p EXCEPT !.invocation = "actionGroup", !.function = tool,
              !.actionGroupName = ag]
WithOtherInvocation(p) == [p EXCEPT !.invocation = "other"]
WithRationale(p, text) == [p EXCEPT !.hasRationale = TRUE, !.rationale = text]
WithResult(p, text) == [p EXCEPT !.hasResult = TRUE, !.resultText = text]

RoutingPayloads ==
    UNION {LET p == Payload(NoRouting, tid)
           IN  {WithMI(p, mi) : mi \in ModelInputs}
               \cup {WithFinal(p, t) : t \in FinalTexts}
               \cup {WithCollab(WithFinal(p, t), "c", arn) :
                        t \in FinalTexts, arn \in CollaboratorArns}
           : tid \in RoutingTraceIds}

OrchestrationPayloads ==
    UNION {LET p == Payload(NoOrchestration, tid)
           IN  {WithMI(p, mi) : mi \in ModelInputs}
               \cup {WithTool(p, f, g) : f \in ToolNames, g \in ActionGroups}
               \cup {WithResult(p, r) : r \in ResultTexts}
               \cup {WithFinal(p, t) : t \in FinalTexts}
               \cup {WithResult(WithTool(p, f, g), r) :
                        f \in SameStepTools, g \in ActionGroups,
                        r \in ResultTexts}
           : tid \in TraceIds}

NoTrace ==
    [missing |-> "none", agentId |-> CHOOSE a \in AgentIds : TRUE,
     sessionId |-> CHOOSE x \in SessionIds : TRUE,
     routing |-> NoRouting, orchestration |-> NoOrchestration]

Traces ==
    {[NoTrace EXCEPT !.agentId = a, !.sessionId = x, !.routing = rd] :
        a \in AgentIds, x \in SessionIds, rd \in RoutingPayloads}
    \cup {[NoTrace EXCEPT !.agentId = a, !.sessionId = x, !.orchestration = od] :
        a \in AgentIds, x \in SessionIds, od \in OrchestrationPayloads}
    \cup {[NoTrace EXCEPT !.missing = "agentId"]}

Chunks == {[kind |-> "bytes", bytes |-> f] : f \in Fragments}
NoChunk == [kind |-> "none", bytes |-> Empty]

NoElement == [hasTrace |-> FALSE, trace |-> NoTrace, chunk |-> NoChunk]

Elements ==
    {[hasTrace |-> FALSE, trace |-> NoTrace, chunk |-> c] : c \in Chunks}
    \cup {[hasTrace |-> TRUE, trace |-> tr, chunk |-> NoChunk] : tr \in Traces}

(***************************************************************************)
(* History of the stream, kept beside the spans and read by no handler.    *)
(* For the span at index i, seen[i] counts the events processed while the  *)
(* span was in the registry that were                                      *)
(*   finals  - a finalResponse whose payload derives the span's own key,   *)
(*   results - a tool-result whose orchestration key P makes P_tool_ a     *)
(*             prefix of the span's key,                                   *)
(*   firsts  - such a tool-result, arriving while the span was the         *)
(*             earliest-registered item with that prefix.                  *)
(* seen[i].raised counts the calls of end() on the span that raised in the *)
(* clean-up loop of the entry point.                                       *)
(***************************************************************************)
NotSeen == [finals |-> 0, results |-> 0, firsts |-> 0, raised |-> 0]

Children(active, span_id) ==
    {k \in DOMAIN active : StartsWith(active[k].key, span_id \o S_tool)}

\* the span a routing finalResponse of tr is for
RoutingFinalOf(st, tr) ==
    IF tr.routing.present /\ tr.routing.hasFinal
    THEN {Lookup(RoutingGetOrCreate(st, RoutingSpanId(TraceRunId(tr), tr.routing),
                                    tr.agentId).active,
                 RoutingSpanId(TraceRunId(tr), tr.routing))}
    ELSE {}

\* the span an orchestration finalResponse of tr is for
OrchestrationFinalOf(b, tr) ==
    IF tr.orchestration.present /\ tr.orchestration.hasFinal
    THEN {b.span} ELSE {}

\* the registry positions a tool-result of tr finds under its prefix
KidsOf(b, tr) ==
    IF tr.orchestration.present /\ tr.orchestration.hasResult
    THEN Children(b.st.active,
                  OrchestrationSpanId(TraceRunId(tr), tr.orchestration))
    ELSE {}

Eldest(kids) == {k \in kids : \A j \in kids : k <= j}

SpansAt(active, ks) == {active[k].span : k \in ks}

Tally(old, n, finals, results, firsts) ==
    [i \in 1..n |->
        [finals |-> (IF i <= Len(old) THEN old[i].finals ELSE 0)
                    + B(i \in finals),
         results |-> (IF i <= Len(old) THEN old[i].results ELSE 0)
                     + B(i \in results),
         firsts |-> (IF i <= Len(old) THEN old[i].firsts ELSE 0)
                    + B(i \in firsts),
         raised |-> IF i <= Len(old) THEN old[i].raised ELSE 0]]

\* b is the handler's state when it reaches the observation
ObserveAt(old, st, b, tr, n) ==
    Tally(old, n,
          RoutingFinalOf(st, tr) \cup OrchestrationFinalOf(b, tr),
          SpansAt(b.st.active, KidsOf(b, tr)),
          SpansAt(b.st.active, Eldest(KidsOf(b, tr))))

Observe(old, st, tr, n) ==
    ObserveAt(old, st,
              OrchestrationBeforeObservation(AfterRouting(st, tr), TraceRunId(tr),
                                             tr.agentId, tr.orchestration),
              tr, n)

(***************************************************************************)
(* observe_response(response).  The call is split at the stream: Invoke    *)
(* runs up to the for loop, Element is one pass of the loop body,          *)
(* StreamRaise the iterator raising, Drain the end of the stream and the   *)
(* code after the loop.                                                    *)
(***************************************************************************)
\* bytes.decode("utf8").  A fragment is a sequence of bytes, each written
\* as a string: "h" and "i" are the one-byte characters, "C3" is the lead
\* byte of a two-byte character and "A9" a continuation byte, the two
\* together being "e-acute".  The result is [ok, text]; ok = FALSE is
\* UnicodeDecodeError (a lead byte without its continuation, or a
\* continuation byte on its own).
OneByte == {"h", "i"}

RECURSIVE Decode(_)
Decode(bytes) ==
    IF bytes = << >> THEN [ok |-> TRUE, text |-> << >>]
    ELSE IF bytes[1] \in OneByte
    THEN [ok |-> Decode(Tail(bytes)).ok,
          text |-> <<bytes[1]>> \o Decode(Tail(bytes)).text]
    ELSE IF bytes[1] = "C3" /\ Len(bytes) >= 2 /\ bytes[2] = "A9"
    THEN [ok |-> Decode(Tail(Tail(bytes))).ok,
          text |-> <<"e-acute">> \o Decode(Tail(Tail(bytes))).text]
    ELSE [ok |-> FALSE, text |-> << >>]

\* variant: the registry is not cleared
Clear_Nothing(active) == active

\* active_spans.clear()
Clear(active) == << >>

NoRoot == [writes |-> 0, completion |-> Empty]

\* variant: the completion attributes are written with an empty text
SetRootAttributes_Empty(r, out) ==
    [writes |-> r.writes + 1, completion |-> Empty]

\* lines 27-37: the attributes set on the root span, then return output
SetRootAttributes(r, out) == [writes |-> r.writes + 1, completion |-> out]

\* no call of the instrumented function has been made
NoWrapper ==
    [pc |-> "idle", calls |-> 0, idx |-> 0, exc |-> "none",
     status |-> "UNSET", sets |-> 0, managed |-> 0, recorded |-> 0,
     attrs |-> {}, outputValue |-> Empty, ended |-> 0, response |-> "none",
     hasCompletion |-> FALSE, reply |-> << >>, completion |-> << >>,
     printed |-> Empty]

Init ==
    /\ pc = "idle"
    /\ inv = 0
    /\ steps = 0
    /\ output = Empty
    /\ event = NoElement
    /\ active_spans = << >>
    /\ spans = << >>
    /\ root = NoRoot
    /\ seen = << >>
    /\ wrapper = NoWrapper

Invoke(hasCompletion) ==
    /\ pc \in {"idle", "returned", "raised"}
    /\ inv < MaxInvocations
    /\ inv' = inv + 1
    /\ output' = Empty
    /\ event' = NoElement
    /\ active_spans' = Clear(active_spans)
    /\ IF hasCompletion
       THEN pc' = "streaming" /\ root' = NoRoot
       ELSE pc' = "returned" /\ root' = SetRootAttributes(NoRoot, Empty)
    /\ UNCHANGED <<steps, spans, seen, wrapper>>

Correlator == [inv |-> inv, active |-> active_spans, spans |-> spans]

\* variant: the fragment is put in front of the accumulated text
Chunk_Prepends(out, e) ==
    IF e.chunk.kind = "none" THEN [out |-> out, raised |-> FALSE]
    ELSE IF e.chunk.kind = "bytes" /\ Decode(e.chunk.bytes).ok
    THEN [out |-> Decode(e.chunk.bytes).text \o out, raised |-> FALSE]
    ELSE [out |-> out, raised |-> TRUE]

\* lines 22-23: if "chunk" in event:
\*                  output += event["chunk"].get("bytes").decode("utf8")
\* e.chunk.kind is "none" (no chunk member), "bytes", or "nobytes" (a chunk
\* without a bytes member: .get gives None and .decode raises
\* AttributeError).  The result is [out, raised].
Chunk(out, e) ==
    IF e.chunk.kind = "none" THEN [out |-> out, raised |-> FALSE]
    ELSE IF e.chunk.kind = "bytes" /\ Decode(e.chunk.bytes).ok
    THEN [out |-> out \o Decode(e.chunk.bytes).text, raised |-> FALSE]
    ELSE [out |-> out, raised |-> TRUE]

\* lines 24-25: if "trace" in event: process_trace(event["trace"])
Trace(st, e) ==
    IF e.hasTrace THEN process_trace(st, e.trace)
    ELSE [st |-> st, raised |-> FALSE]

\* lines 22-25: the trace member is looked at only if line 23 did not raise
AfterChunk(c, st, e) ==
    IF c.raised
    THEN [out |-> c.out, st |-> st, raised |-> TRUE, traced |-> FALSE]
    ELSE [out |-> c.out, st |-> Trace(st, e).st,
          raised |-> Trace(st, e).raised,
          traced |-> e.hasTrace /\ ~Trace(st, e).raised]

LoopBody(out, st, e) == AfterChunk(Chunk(out, e), st, e)

\* one pass of the loop body, r being what the pass did, in a stream of at
\* most bound elements
PassWithin(e, r, bound) ==
    /\ pc = "streaming"
    /\ steps < bound
    /\ steps' = steps + 1
    /\ event' = e
    /\ output' = r.out
    /\ active_spans' = r.st.active
    /\ spans' = r.st.spans
    /\ seen' = IF r.traced
               THEN Observe(seen, Correlator, e.trace, Len(r.st.spans))
               ELSE seen
    /\ pc' = IF r.raised THEN "raised" ELSE "streaming"
    /\ UNCHANGED <<inv, root, wrapper>>

Pass(e, r) == PassWithin(e, r, MaxSteps)

Element(e) == Pass(e, LoopBody(output, Correlator, e))

StreamRaise ==
    /\ pc = "streaming"
    /\ pc' = "raised"
    /\ UNCHANGED <<inv, steps, output, event, active_spans, spans, root, seen,
                   wrapper>>

Drain ==
    /\ pc = "streaming"
    /\ pc' = "returned"
    /\ root' = SetRootAttributes(root, output)
    /\ UNCHANGED <<inv, steps, output, event, active_spans, spans, seen, wrapper>>

Next ==
    \/ \E hasCompletion \in BOOLEAN : Invoke(hasCompletion)
    \/ \E e \in Elements : Element(e)
    \/ StreamRaise
    \/ Drain

Spec == Init /\ [][Next]_vars

(***************************************************************************)
(* Streams of unusual payloads: a trace id that holds "_tool_", payloads   *)
(* without any sub-shape the handlers look for, an invocationInput without *)
(* actionGroupInvocationInput, a rationale, agent and session ids that     *)
(* hold "_".                                                               *)
(***************************************************************************)
NestedTraceId == <<"t">> \o S_tool \o <<"x">>

\* an agent id and a session id that hold the separator of line 47
UnderscoreAgentId == <<"a">> \o S_underscore \o <<"b">>
UnderscoreSessionId == <<"b">> \o S_underscore \o <<"c">>

OrchestrationTrace(od) == [NoTrace EXCEPT !.orchestration = od]
RoutingTrace(rd) == [NoTrace EXCEPT !.routing = rd]

ShapeTraces ==
    LET p == Payload(NoOrchestration, <<"t">>)
        q == Payload(NoOrchestration, NestedTraceId)
        r == Payload(NoRouting, <<"t">>)
    IN  {NoTrace, OrchestrationTrace(p), RoutingTrace(r),
         OrchestrationTrace(WithOtherInvocation(p)),
         OrchestrationTrace(WithRationale(p, "why")),
         RoutingTrace(WithRationale(r, "why")),
         OrchestrationTrace(WithResult(p, "r1")),
         OrchestrationTrace(WithFinal(p, "hi")),
         OrchestrationTrace(WithTool(p, <<"x">>, "g1")),
         [OrchestrationTrace(p) EXCEPT !.agentId = UnderscoreAgentId,
                                       !.sessionId = <<"c">>],
         [OrchestrationTrace(p) EXCEPT !.agentId = <<"a">>,
                                       !.sessionId = UnderscoreSessionId]}
        \cup {OrchestrationTrace(WithMI(q, mi)) : mi \in ModelInputs}

ShapeElements ==
    {[hasTrace |-> TRUE, trace |-> tr, chunk |-> NoChunk] : tr \in ShapeTraces}

NextShapes ==
    \/ \E hasCompletion \in BOOLEAN : Invoke(hasCompletion)
    \/ \E e \in ShapeElements : Element(e)
    \/ StreamRaise
    \/ Drain

SpecShapes == Init /\ [][NextShapes]_vars

(***************************************************************************)
(* Streams of chunks with trace elements between them: fragments of one    *)
(* and two characters, a fragment that ends inside a character, a chunk    *)
(* without bytes, an element holding a chunk and a trace.                  *)
(***************************************************************************)
ChunkFragments == {<<"h">>, <<"i">>, <<"C3", "A9">>, <<"C3">>}

ChunkStream ==
    LET mi == CHOOSE m \in ModelInputs : TRUE
        tr == OrchestrationTrace(WithMI(Payload(NoOrchestration, <<"t">>), mi))
    IN  {[hasTrace |-> FALSE, trace |-> NoTrace,
          chunk |-> [kind |-> "bytes", bytes |-> f]] : f \in ChunkFragments}
        \cup {[hasTrace |-> FALSE, trace |-> NoTrace,
               chunk |-> [kind |-> "nobytes", bytes |-> Empty]],
              [hasTrace |-> TRUE, trace |-> tr, chunk |-> NoChunk],
              [hasTrace |-> TRUE, trace |-> NoTrace, chunk |-> NoChunk],
              [hasTrace |-> TRUE, trace |-> tr,
               chunk |-> [kind |-> "bytes", bytes |-> <<"h">>]]}

NextChunks ==
    \/ \E hasCompletion \in BOOLEAN : Invoke(hasCompletion)
    \/ \E e \in ChunkStream : Element(e)
    \/ StreamRaise
    \/ Drain

SpecChunks == Init /\ [][NextChunks]_vars

(***************************************************************************)
(* Streams of routing events that all derive one key: each element holds   *)
(* a modelInvocationInput (alone or with a modelInvocationOutput) or a      *)
(* finalResponse.                                                          *)
(***************************************************************************)
RoutingModels == {"m1", "m2"}
RoutingFinals == {"hi", "bye"}

RoutingStream ==
    LET r == Payload(NoRouting, <<"t">>)
        mi(m) == PlainInput(m)
    IN  {[hasTrace |-> TRUE, trace |-> RoutingTrace(rd), chunk |-> NoChunk] :
            rd \in {WithMI(r, mi(m)) : m \in RoutingModels}
                   \cup {WithMO(WithMI(r, mi(m)), mo) :
                            m \in RoutingModels, mo \in ModelOutputs}
                   \cup {WithFinal(r, t) : t \in RoutingFinals}}

NextRouting ==
    \/ \E hasCompletion \in BOOLEAN : Invoke(hasCompletion)
    \/ \E e \in RoutingStream : Element(e)
    \/ StreamRaise
    \/ Drain

SpecRouting == Init /\ [][NextRouting]_vars

(***************************************************************************)
(* Streams of model-invocation-inputs for one orchestration key, over the  *)
(* prompts json.loads and the expansion treat differently, with and        *)
(* without inference parameters, and the finalResponse that ends the span. *)
(***************************************************************************)
SystemMessage ==
    [dict |-> TRUE, hasRole |-> TRUE, role |-> "system",
     hasContent |-> TRUE, content |-> "c0"]
BareMessage ==
    [dict |-> TRUE, hasRole |-> FALSE, role |-> "",
     hasContent |-> FALSE, content |-> ""]
NotAMessage ==
    [dict |-> FALSE, hasRole |-> FALSE, role |-> "",
     hasContent |-> FALSE, content |-> ""]

Prompts ==
    {[text |-> "p", json |-> "fail", messages |-> << >>],
     [text |-> "5", json |-> "scalar", messages |-> << >>],
     [text |-> "{}", json |-> "nomessages", messages |-> << >>],
     [text |-> "j0", json |-> "messages", messages |-> << >>],
     [text |-> "j1", json |-> "messages", messages |-> <<SystemMessage>>],
     [text |-> "j2", json |-> "messages",
      messages |-> <<SystemMessage, BareMessage>>],
     [text |-> "j3", json |-> "messages",
      messages |-> <<SystemMessage, BareMessage, NotAMessage>>],
     [text |-> "j4", json |-> "messages", messages |-> <<NotAMessage>>]}

InferenceConfigurations ==
    {[given |-> {}, temperature |-> 0, topK |-> 0, topP |-> 0],
     [given |-> {"temperature", "topK", "topP"},
      temperature |-> 1, topK |-> 250, topP |-> 1],
     [given |-> {"topK"}, temperature |-> 0, topK |-> 250, topP |-> 0]}

PromptInputs ==
    {[foundationModel |-> "m1", text |-> p.text, json |-> p.json,
      messages |-> p.messages, given |-> c.given,
      temperature |-> c.temperature, topK |-> c.topK, topP |-> c.topP] :
        p \in Prompts, c \in InferenceConfigurations}

PromptStream ==
    LET o == Payload(NoOrchestration, <<"t">>)
    IN  {[hasTrace |-> TRUE, trace |-> OrchestrationTrace(od),
          chunk |-> NoChunk] :
            od \in {WithMI(o, mi) : mi \in PromptInputs}
                   \cup {WithFinal(o, "hi")}}

NextPrompt ==
    \/ \E hasCompletion \in BOOLEAN : Invoke(hasCompletion)
    \/ \E e \in PromptStream : Element(e)
    \/ StreamRaise
    \/ Drain

SpecPrompt == Init /\ [][NextPrompt]_vars

(***************************************************************************)
(* Streams of model-invocation-outputs for one orchestration key and one   *)
(* routing key, over the token counts of metadata.usage, present or       *)
(* absent.                                                                 *)
(***************************************************************************)
MaxTokens == 2
MaxTokenSteps == 2

TokenCounts == 0..MaxTokens \cup {12, 34}

Usages ==
    {[given |-> {"inputTokens", "outputTokens"},
      inputTokens |-> a, outputTokens |-> b] :
        a \in TokenCounts, b \in TokenCounts}
    \cup {[given |-> {"inputTokens"}, inputTokens |-> a, outputTokens |-> 0] :
            a \in TokenCounts}
    \cup {[given |-> {"outputTokens"}, inputTokens |-> 0, outputTokens |-> b] :
            b \in TokenCounts}
    \cup {[given |-> {}, inputTokens |-> 0, outputTokens |-> 0]}

TokenStream ==
    LET o == Payload(NoOrchestration, <<"t">>)
        r == Payload(NoRouting, <<"t">>)
    IN  {[hasTrace |-> TRUE, trace |-> OrchestrationTrace(WithMO(o, mo)),
          chunk |-> NoChunk] : mo \in Usages}
        \cup {[hasTrace |-> TRUE, trace |-> RoutingTrace(WithMO(r, mo)),
               chunk |-> NoChunk] : mo \in {u \in Usages : u.given = {}}}
        \cup {[hasTrace |-> TRUE, trace |-> OrchestrationTrace(WithFinal(o, "hi")),
               chunk |-> NoChunk]}

TokenElement(e) ==
    PassWithin(e, LoopBody(output, Correlator, e), MaxTokenSteps)

NextTokens ==
    \/ \E hasCompletion \in BOOLEAN : Invoke(hasCompletion)
    \/ \E e \in TokenStream : TokenElement(e)
    \/ StreamRaise
    \/ Drain

SpecTokens == Init /\ [][NextTokens]_vars

(***************************************************************************)
(* Streams of collaborator outputs for one routing key, over alias strings *)
(* with the marker inside, at index 0, without the marker, without a path  *)
(* separator after the alias, and the empty string of an absent member.    *)
(***************************************************************************)
AliasArns ==
    {<<"r">> \o S_marker \o <<"A", "/", "Z">>,
     S_marker \o <<"A", "/", "Z">>,
     <<"r">> \o S_marker \o <<"A">>,
     <<"r", "/", "A", "/", "Z">>,
     <<"r">>,
     Empty}

ArnStream ==
    LET r == Payload(NoRouting, <<"t">>)
    IN  {[hasTrace |-> TRUE, trace |-> RoutingTrace(rd), chunk |-> NoChunk] :
            rd \in {WithCollab(r, "c", arn) : arn \in AliasArns}
                   \cup {WithFinal(r, "hi")}
                   \cup {WithCollab(WithFinal(r, "hi"), "c", arn) :
                            arn \in {<<"r">> \o S_marker \o <<"A", "/", "Z">>}}}

NextArn ==
    \/ \E hasCompletion \in BOOLEAN : Invoke(hasCompletion)
    \/ \E e \in ArnStream : Element(e)
    \/ StreamRaise
    \/ Drain

SpecArn == Init /\ [][NextArn]_vars

(***************************************************************************)
(* Streams of tool invocations and tool results for one orchestration key, *)
(* long enough for two invocation/result pairs of one tool, one after the  *)
(* other or overlapping.                                                   *)
(***************************************************************************)
MaxToolSteps == 4

ToolStream ==
    LET o == Payload(NoOrchestration, <<"t">>)
    IN  {[hasTrace |-> TRUE, trace |-> OrchestrationTrace(od),
          chunk |-> NoChunk] :
            od \in {WithTool(o, <<"x">>, "g1"), WithTool(o, <<"y">>, "g1"),
                    WithResult(o, "r1"), WithResult(o, "r2")}}

ToolElement(e) == PassWithin(e, LoopBody(output, Correlator, e), MaxToolSteps)

NextTools ==
    \/ \E hasCompletion \in BOOLEAN : Invoke(hasCompletion)
    \/ \E e \in ToolStream : ToolElement(e)
    \/ StreamRaise
    \/ Drain

SpecTools == Init /\ [][NextTools]_vars

(***************************************************************************)
(* The entry point of simple-otel-example: one invocation, then the        *)
(* clean-up of the registry and the shutdown of the provider.  The lines   *)
(* after the with block run only when observe_response returned; an        *)
(* exception out of it ends the script before them.  Whether span.end()    *)
(* raises is the exporter's doing: raising is the set of registry          *)
(* positions at which it does.                                             *)
(***************************************************************************)
\* variant: the first end() that raises ends the loop
RECURSIVE EndLeftovers_StopsAtFailure(_, _, _, _)
EndLeftovers_StopsAtFailure(st, items, k, raising) ==
    IF k > Len(items) \/ k \in raising THEN st
    ELSE EndLeftovers_StopsAtFailure(EndSpan(st, items[k].span), items,
                                     k + 1, raising)

\* lines 100-105: for span_id, span in list(active_spans.items()):
\*                    try: span.end()  except Exception: print(...)
\* from the item at position k on
RECURSIVE EndLeftovers(_, _, _, _)
EndLeftovers(st, items, k, raising) ==
    IF k > Len(items) THEN st
    ELSE EndLeftovers(IF k \in raising THEN st ELSE EndSpan(st, items[k].span),
                      items, k + 1, raising)

\* the calls of end() that raised, added to the history
NoteRaised(old, items, raising) ==
    [i \in DOMAIN old |->
        [old[i] EXCEPT !.raised =
            @ + B(\E k \in raising : items[k].span = i)]]

\* line 60: the script invokes the agent once
MainInvoke(hasCompletion) == inv = 0 /\ Invoke(hasCompletion)

\* lines 95-109: the completion set on the root span, the clean-up loop,
\* active_spans.clear() and provider.shutdown()
Shutdown(raising) ==
    /\ pc = "returned"
    /\ pc' = "shutdown"
    /\ root' = SetRootAttributes(root, output)
    /\ spans' = EndLeftovers(Correlator, active_spans, 1, raising).spans
    /\ seen' = NoteRaised(seen, active_spans, raising)
    /\ active_spans' = Clear(active_spans)
    /\ UNCHANGED <<inv, steps, output, event, wrapper>>

MainElements == Elements \cup ShapeElements

NextMain ==
    \/ \E hasCompletion \in BOOLEAN : MainInvoke(hasCompletion)
    \/ \E e \in MainElements : Element(e)
    \/ StreamRaise
    \/ Drain
    \/ \E raising \in SUBSET (DOMAIN active_spans) : Shutdown(raising)

SpecMain == Init /\ [][NextMain]_vars

(***************************************************************************)
(* instrument_agent_invocation.wrapper of openinference-example/main.py.   *)
(* wrapper.pc is where the call is ("idle", "streaming", "returned",       *)
(* "raised"), idx the loop index, exc the exception class that was raised  *)
(* ("none" when none), status the root span's status code, sets the calls  *)
(* of set_status made by the wrapper, managed the calls made by the        *)
(* context manager of start_as_current_span when an exception leaves the   *)
(* with block, recorded the calls of record_exception made by the wrapper, *)
(* attrs the keys of the attributes set on the root span, outputValue the  *)
(* text last set as output value, ended the calls of end(), response what  *)
(* the caller got.  The call is split at the stream as observe_response   *)
(* is.  hasCompletion tells whether the response holds a completion        *)
(* member, reply is the event stream as the service sent it, completion    *)
(* the elements of response['completion'] that no loop has taken yet (the  *)
(* stream is an iterator over the connection: an element that was taken is *)
(* gone), printed the text the entry point printed.                        *)
(***************************************************************************)
\* root_span.set_status(Status(code)), lines 149 and 154; the SDK drops the
\* call on an ended span, keeps a status that is OK and lets any other be
\* replaced
SetStatus(w, code) ==
    [w EXCEPT !.sets = @ + 1,
              !.status = IF w.ended > 0 \/ w.status = "OK" THEN @ ELSE code]

\* leaving the with block of lines 96-120: an exception that propagates is
\* recorded and marks the span ERROR (set_status_on_exception), and the
\* span is ended (end_on_exit)
ExitSpan(w, raising) ==
    [w EXCEPT !.managed = @ + B(raising),
              !.status = IF raising /\ w.status # "OK" THEN "ERROR" ELSE @,
              !.ended = @ + 1]

\* variant: the status is set to OK as soon as the wrapped call returns
AfterCall_SetsOk(w, hasCompletion) ==
    IF hasCompletion
    THEN [SetStatus(w, "OK") EXCEPT !.pc = "streaming"]
    ELSE [ExitSpan(SetStatus(w, "OK"), FALSE) EXCEPT
            !.pc = "returned", !.response = "response"]

\* lines 122-124 when func returned: the loop is entered, or skipped when
\* the response has no completion member
AfterCall(w, hasCompletion) ==
    IF hasCompletion
    THEN [w EXCEPT !.pc = "streaming"]
    ELSE [ExitSpan(SetStatus(w, "OK"), FALSE) EXCEPT
            !.pc = "returned", !.response = "response"]

\* lines 152-158: except Exception as e, for an exception of class exc; the
\* bare raise takes it through the with block to the caller
Except(w, exc) ==
    [ExitSpan([SetStatus(w, "ERROR") EXCEPT
                 !.exc = exc, !.recorded = @ + 1,
                 !.attrs = @ \cup {"error.message", "error.type"}],
              TRUE)
        EXCEPT !.pc = "raised"]

\* f"chunk.{idx}.content"
ChunkKey(idx) == "chunk." \o ToString(idx) \o ".content"

\* lines 127-146: the loop body.  The element holds a chunk with bytes
\* that decode, or that do not, a chunk without bytes, a trace member that
\* process_trace_event handles, one on which it raises, one without the
\* inner trace member, or neither member.
LoopStep(w, el) ==
    IF el.kind = "chunk" /\ Decode(el.bytes).ok
    THEN [w EXCEPT !.idx = @ + 1,
                   !.outputValue = Decode(el.bytes).text,
                   !.attrs = @ \cup {"output.value", "langchain.output",
                                     ChunkKey(w.idx)}]
    ELSE IF el.kind = "chunk" THEN Except(w, "UnicodeDecodeError")
    ELSE IF el.kind = "traceRaises" THEN Except(w, "ProcessorError")
    ELSE IF el.kind = "traceWithoutTrace" THEN Except(w, "KeyError")
    ELSE [w EXCEPT !.idx = @ + 1]

WrapperElements ==
    {[kind |-> "chunk", bytes |-> f] : f \in ChunkFragments}
    \cup {[kind |-> k, bytes |-> Empty] :
            k \in {"chunkWithoutBytes", "trace", "traceRaises",
                   "traceWithoutTrace", "other"}}

\* lines 56-122: a call of the instrumented function: the root span is
\* started and func is called; outcome is what func does
WrapperCall(outcome) ==
    /\ wrapper.pc \in {"idle", "returned", "raised"}
    /\ wrapper.calls < MaxInvocations
    /\ wrapper' =
         LET w == [NoWrapper EXCEPT !.calls = wrapper.calls + 1]
         IN  IF outcome = "raises" THEN Except(w, "ClientError")
             ELSE AfterCall(w, outcome = "completion")
    /\ UNCHANGED <<pc, inv, steps, output, event, active_spans, spans, root,
                   seen>>

\* one pass of the loop of lines 126-146
WrapperElement(el) ==
    /\ wrapper.pc = "streaming"
    /\ wrapper.idx < MaxSteps
    /\ wrapper' = LoopStep(wrapper, el)
    /\ UNCHANGED <<pc, inv, steps, output, event, active_spans, spans, root,
                   seen>>

\* line 126: the iterator of the stream raises
WrapperStreamRaise ==
    /\ wrapper.pc = "streaming"
    /\ wrapper' = Except(wrapper, "EventStreamError")
    /\ UNCHANGED <<pc, inv, steps, output, event, active_spans, spans, root,
                   seen>>

\* lines 148-150: the stream is exhausted
WrapperReturn ==
    /\ wrapper.pc = "streaming"
    /\ wrapper' = [ExitSpan(SetStatus(wrapper, "OK"), FALSE) EXCEPT
                     !.pc = "returned", !.response = "response"]
    /\ UNCHANGED <<pc, inv, steps, output, event, active_spans, spans, root,
                   seen>>

NextWrapper ==
    \/ \E outcome \in {"raises", "completion", "nocompletion"} :
          WrapperCall(outcome)
    \/ \E el \in WrapperElements : WrapperElement(el)
    \/ WrapperStreamRaise
    \/ WrapperReturn

SpecWrapper == Init /\ [][NextWrapper]_vars

(***************************************************************************)
(* The entry point of openinference-example/main.py: it calls the          *)
(* instrumented invoke_bedrock_agent and then prints the chunks of         *)
(* response['completion'].  The event stream of the reply is fixed when    *)
(* the call is made; the wrapper's loop and the entry point's loop take    *)
(* their elements from the same iterator.                                  *)
(***************************************************************************)
MaxReplyLen == 3

Replies ==
    UNION {[1..n -> WrapperElements] : n \in 0..MaxReplyLen}

\* lines 221-223, for the elements els the iterator still yields, text
\* being what was printed so far: the result is [text, raised, rest]
RECURSIVE PrintCompletion(_, _)
PrintCompletion(els, text) ==
    IF els = << >> THEN [text |-> text, raised |-> FALSE, rest |-> << >>]
    ELSE IF Head(els).kind # "chunk" THEN PrintCompletion(Tail(els), text)
    ELSE IF Decode(Head(els).bytes).ok
    THEN PrintCompletion(Tail(els), text \o Decode(Head(els).bytes).text)
    ELSE [text |-> text, raised |-> TRUE, rest |-> Tail(els)]

\* lines 220-224: the loop is entered only if the response holds a
\* completion member; r is what the loop did
Printed(w, r) ==
    IF w.hasCompletion
    THEN [w EXCEPT !.printed = r.text, !.completion = r.rest,
                   !.pc = IF r.raised THEN "logged" ELSE "printed"]
    ELSE [w EXCEPT !.pc = "printed"]

\* lines 205-216 with lines 56-124: the entry point calls the instrumented
\* function; outcome is what func does and reply the event stream of the
\* response
EntryCall(outcome, reply) ==
    /\ wrapper.pc = "idle"
    /\ outcome # "completion" => reply = << >>
    /\ wrapper' =
         IF outcome = "raises"
         THEN Except([NoWrapper EXCEPT !.calls = 1], "ClientError")
         ELSE AfterCall([NoWrapper EXCEPT
                           !.calls = 1,
                           !.hasCompletion = (outcome = "completion"),
                           !.reply = reply, !.completion = reply],
                        outcome = "completion")
    /\ UNCHANGED <<pc, inv, steps, output, event, active_spans, spans, root,
                   seen>>

\* one pass of the loop of lines 126-146: the iterator yields its next
\* element
EntryElement ==
    /\ wrapper.pc = "streaming"
    /\ wrapper.completion # << >>
    /\ wrapper' = [LoopStep(wrapper, Head(wrapper.completion)) EXCEPT
                     !.completion = Tail(wrapper.completion)]
    /\ UNCHANGED <<pc, inv, steps, output, event, active_spans, spans, root,
                   seen>>

\* lines 148-150: the iterator is exhausted and the loop of line 126 ends
EntryReturn ==
    /\ wrapper.pc = "streaming"
    /\ wrapper.completion = << >>
    /\ wrapper' = [ExitSpan(SetStatus(wrapper, "OK"), FALSE) EXCEPT
                     !.pc = "returned", !.response = "response"]
    /\ UNCHANGED <<pc, inv, steps, output, event, active_spans, spans, root,
                   seen>>

\* lines 219-224: the entry point prints the chunks of the response it got
EntryPrint ==
    /\ wrapper.pc = "returned"
    /\ wrapper' = Printed(wrapper, PrintCompletion(wrapper.completion, Empty))
    /\ UNCHANGED <<pc, inv, steps, output, event, active_spans, spans, root,
                   seen>>

\* lines 226-227: the exception the wrapper raised again is logged
EntryLog ==
    /\ wrapper.pc = "raised"
    /\ wrapper' = [wrapper EXCEPT !.pc = "logged"]
    /\ UNCHANGED <<pc, inv, steps, output, event, active_spans, spans, root,
                   seen>>

NextEntry ==
    \/ \E outcome \in {"raises", "completion", "nocompletion"},
          reply \in Replies : EntryCall(outcome, reply)
    \/ EntryElement
    \/ WrapperStreamRaise
    \/ EntryReturn
    \/ EntryPrint
    \/ EntryLog

SpecEntry == Init /\ [][NextEntry]_vars

(***************************************************************************)
(* Properties.                                                             *)
(***************************************************************************)
\* the step is a pass of the loop body, for element e
Stepped(e) == steps' # steps /\ event' = e
WellFormed(e) == e.hasTrace /\ e.trace.missing = "none"
RoutingKeyOf(e) == RoutingSpanId(TraceRunId(e.trace), e.trace.routing)
OrchestrationKeyOf(e) ==
    OrchestrationSpanId(TraceRunId(e.trace), e.trace.orchestration)
ToolKeyOf(e) ==
    ToolPrefix(OrchestrationKeyOf(e))
    \o (IF e.trace.orchestration.invocation = "actionGroup"
        THEN e.trace.orchestration.function ELSE Empty)
Registered == {active_spans[k].span : k \in DOMAIN active_spans}
IsToolSpan(sp) == sp.name[1] \notin {"agent_routing", "agent_orchestration"}

\* C1: every key of the registry maps to a span that was started, is filed
\* under the key it was started with and has not been ended; a span that has
\* been ended is in the registry under no key.
C1_RegistryHoldsOnlyOpenSpans ==
    /\ \A k \in DOMAIN active_spans :
          /\ active_spans[k].span \in DOMAIN spans
          /\ spans[active_spans[k].span].ended = 0
          /\ spans[active_spans[k].span].key = active_spans[k].key
    /\ \A i \in DOMAIN spans : spans[i].ended > 0 => i \notin Registered

C1_Witness ==
    /\ \E i \in DOMAIN spans : spans[i].ended = 1
    /\ active_spans # << >>

ClosedKeys ==
    {spans[i].key : i \in {j \in DOMAIN spans :
                              spans[j].inv = inv /\ spans[j].ended > 0}}
StartedUnder(key) ==
    \E i \in (DOMAIN spans') \ (DOMAIN spans) :
        spans'[i].key = key /\ spans'[i].inv = inv
C3_NoWriteAfterEnd == \A i \in DOMAIN spans : spans[i].late = {}

\* The correlator as the prefix scan of a tool-result finds it: after the
\* routing branch and the part of orchestration_trace before the observation.
AtScan(e) ==
    OrchestrationBeforeObservation(AfterRouting(Correlator, e.trace),
        TraceRunId(e.trace), e.trace.agentId, e.trace.orchestration).st
ResultStep(e) ==
    /\ Stepped(e) /\ WellFormed(e)
    /\ e.trace.orchestration.present /\ e.trace.orchestration.hasResult
KidsAtScan(e) == Children(AtScan(e).active, OrchestrationKeyOf(e))
ClosedNow(i) ==
    /\ i \in DOMAIN spans' /\ spans'[i].ended = 1
    /\ \A k \in DOMAIN active_spans' : active_spans'[k].span # i
    /\ i \in DOMAIN spans => spans[i].ended = 0
\* the child at registry position k is left as the scan found it
LeftOpen(e, k) ==
    LET it == AtScan(e).active[k]
    IN  /\ spans'[it.span] = AtScan(e).spans[it.span]
        /\ \E m \in DOMAIN active_spans' : active_spans'[m] = it

\* C4 as stated: of two or more open tool children of P, a tool-result for P
\* closes the most recently opened one and leaves the others as they were.
C4_ResultClosesNewestChild ==
    [][LET e == event' IN
          (ResultStep(e) /\ Cardinality(KidsAtScan(e)) >= 2) =>
             LET newest == CHOOSE k \in KidsAtScan(e) :
                              \A j \in KidsAtScan(e) : j <= k
             IN  /\ ClosedNow(AtScan(e).active[newest].span)
                 /\ \A k \in KidsAtScan(e) \ {newest} : LeftOpen(e, k)]_vars

\* C4 amended: of two or more open children of P (registry items whose key
\* starts with P_tool_), a tool-result for P closes the one registered first,
\* that is the earliest opened, and leaves the others as they were.
C4_ResultClosesEldestChild ==
    [][LET e == event' IN
          (ResultStep(e) /\ Cardinality(KidsAtScan(e)) >= 2) =>
             LET eldest == CHOOSE k \in KidsAtScan(e) :
                              \A j \in KidsAtScan(e) : k <= j
                 c == AtScan(e).active[eldest].span
             IN  /\ ClosedNow(c)
                 /\ spans'[c].attrs["gen_ai.tool.output"] =
                       Lit(e.trace.orchestration.resultText)
                 /\ \A j \in KidsAtScan(e) :
                       AtScan(e).spans[c].start <=
                          AtScan(e).spans[AtScan(e).active[j].span].start
                 /\ \A k \in KidsAtScan(e) \ {eldest} : LeftOpen(e, k)]_vars

C4_Witness ==
    \E i, j \in DOMAIN spans :
        /\ i < j /\ spans[i].inv = spans[j].inv
        /\ IsToolSpan(spans[i]) /\ IsToolSpan(spans[j])
        /\ spans[i].ended = 1 /\ "gen_ai.tool.output" \in DOMAIN spans[i].attrs
        /\ spans[j].start < spans[i].end
        /\ spans[j].ended = 0 /\ seen[j].results = 1 /\ j \in Registered

\* C5 as stated: the first tool-result for P that arrives after the span of a
\* tool of P was opened closes that span, which then carries the action group
\* of the invocation and the result text.
C5_FirstResultClosesTheTool ==
    [][LET e == event' IN
          ResultStep(e) =>
             \A k \in KidsAtScan(e) :
                LET x == AtScan(e).active[k].span
                IN  (IsToolSpan(AtScan(e).spans[x])
                     /\ (x \in DOMAIN seen => seen[x].results = 0)) =>
                       /\ ClosedNow(x)
                       /\ spans'[x].attrs["gen_ai.tool.output"] =
                             Lit(e.trace.orchestration.resultText)
                       /\ "gen_ai.action_group" \in DOMAIN spans'[x].attrs]_vars

\* C5 amended: an invocation input for tool X under P whose tool key is not
\* in the registry starts a span under that key carrying the tool name and
\* the action group of that invocation; a later tool-result for P that finds
\* this span first among the registry items starting with P_tool_ closes it,
\* adding the result text and keeping the attributes it was started with.  A
\* child registered behind another open child of P is not closed by the
\* result.
C5_ToolSpanCarriesGroupAndResult ==
    [][LET e == event' IN
          /\ (/\ Stepped(e) /\ WellFormed(e)
              /\ e.trace.orchestration.present
              /\ e.trace.orchestration.invocation = "actionGroup"
              /\ ~Contains(active_spans, ToolKeyOf(e))) =>
                \E i \in (DOMAIN spans') \ (DOMAIN spans) :
                   /\ spans'[i].key = ToolKeyOf(e)
                   /\ spans'[i].attrs["gen_ai.tool.name"] =
                         e.trace.orchestration.function
                   /\ spans'[i].attrs["gen_ai.action_group"] =
                         Lit(e.trace.orchestration.actionGroupName)
          /\ (ResultStep(e) /\ KidsAtScan(e) # {}) =>
                LET eldest == CHOOSE k \in KidsAtScan(e) :
                                 \A j \in KidsAtScan(e) : k <= j
                    x == AtScan(e).active[eldest].span
                IN  /\ ClosedNow(x)
                    /\ spans'[x].attrs =
                          Put(AtScan(e).spans[x].attrs, "gen_ai.tool.output",
                              Lit(e.trace.orchestration.resultText))
                    /\ \A k \in KidsAtScan(e) \ {eldest} :
                          ~ClosedNow(AtScan(e).active[k].span)]_vars

C5_Witness ==
    \E i, j \in DOMAIN spans :
        /\ IsToolSpan(spans[i]) /\ spans[i].ended = 1
        /\ spans[i].attrs["gen_ai.tool.name"] = <<"x">>
        /\ spans[i].attrs["gen_ai.action_group"] = Lit("g1")
        /\ "gen_ai.tool.output" \in DOMAIN spans[i].attrs
        /\ spans[i].attrs["gen_ai.tool.output"] = Lit("r1")
        /\ spans[i].start < spans[j].start /\ spans[j].start < spans[i].end

\* C6: a trace event leaves alone every registered span whose key is neither
\* a key the event derives nor an extension of its orchestration key by
\* _tool_: the span stays in the registry under its key, is not ended and
\* receives no write.
C6_OtherSpansUntouched ==
    [][LET e == event' IN
          Stepped(e) =>
             \A k \in DOMAIN active_spans :
                LET it == active_spans[k]
                    own ==
                       /\ WellFormed(e)
                       /\ \/ /\ e.trace.routing.present
                             /\ it.key = RoutingKeyOf(e)
                          \/ /\ e.trace.orchestration.present
                             /\ \/ it.key = OrchestrationKeyOf(e)
                                \/ StartsWith(it.key,
                                      ToolPrefix(OrchestrationKeyOf(e)))
                IN  ~own =>
                       /\ spans'[it.span] = spans[it.span]
                       /\ \E m \in DOMAIN active_spans' :
                             active_spans'[m] = it]_vars

C6_Witness ==
    \E i, j \in DOMAIN spans :
        /\ IsToolSpan(spans[i]) /\ i \in Registered /\ spans[i].ended = 0
        /\ seen[i].results = 0
        /\ spans[j].start > spans[i].start /\ spans[j].inv = spans[i].inv
        /\ spans[j].name = Lit("agent_orchestration")
        /\ ~StartsWith(spans[i].key, ToolPrefix(spans[j].key))
        /\ spans[j].ended = 1

\* C7 as stated: when consumption of the stream aborts with an exception, no
\* span of the invocation is left open and the registry is empty.
C7_AbortClosesOpenSpans ==
    pc = "raised" =>
       /\ active_spans = << >>
       /\ \A i \in DOMAIN spans : spans[i].inv = inv => spans[i].ended >= 1

\* C8: a call of observe_response starts with an empty registry; the
\* registry only ever holds spans started by the current call, and no step
\* ends or writes a span started by an earlier call.
C8_NoCrossInvocationUse ==
    [][/\ inv' # inv => active_spans' = << >>
       /\ \A k \in DOMAIN active_spans' :
             spans'[active_spans'[k].span].inv = inv'
       /\ \A i \in DOMAIN spans :
             spans'[i] # spans[i] => spans[i].inv = inv']_vars

C8_Witness ==
    \E i, j \in DOMAIN spans :
        /\ spans[i].inv = 1 /\ spans[j].inv = 2 /\ inv = 2
        /\ spans[i].key = spans[j].key
        /\ spans[i].ended = 0
        /\ spans[j].ended = 1

\* C9: no span is ended more than once, and a tool-result that finds no
\* registered child of its key ends no span (the only span its payload can
\* end is the orchestration span, through a finalResponse).
C9_EndedAtMostOnce ==
    [][/\ \A i \in DOMAIN spans' : spans'[i].ended <= 1
       /\ LET e == event' IN
             (ResultStep(e) /\ KidsAtScan(e) = {}) =>
                \A i \in DOMAIN spans' :
                   spans'[i].ended # (IF i \in DOMAIN spans
                                      THEN spans[i].ended ELSE 0)
                      => /\ e.trace.orchestration.hasFinal
                         /\ spans'[i].key = OrchestrationKeyOf(e)]_vars

StartAttributes ==
    {"langsmith.span.kind", "gen_ai.operation.name", "gen_ai.system",
     "gen_ai.agent.id", "gen_ai.trace_id", "gen_ai.component"}
C9_Witness ==
    /\ \E i \in DOMAIN spans : IsToolSpan(spans[i]) /\ spans[i].ended = 1
    /\ \E j \in DOMAIN spans :
          /\ spans[j].name = Lit("agent_orchestration")
          /\ spans[j].ended = 0
          /\ DOMAIN spans[j].attrs = StartAttributes
          /\ \A m \in DOMAIN spans :
                ~StartsWith(spans[m].key, ToolPrefix(spans[j].key))

\* C10 as stated: at the end of the stream a span of the invocation is open
\* only if no terminal event for it was processed after it was opened: no
\* finalResponse deriving its key, or for a tool span no tool-result under
\* its parent key.
C10_OpenOnlyWithoutTerminalEvent ==
    pc = "returned" =>
       \A i \in DOMAIN spans :
          (spans[i].inv = inv /\ spans[i].ended = 0) =>
             IF IsToolSpan(spans[i]) THEN seen[i].results = 0
             ELSE seen[i].finals = 0

\* C10 amended: at the end of the stream every span of the invocation is
\* either ended, once, and out of the registry, or open and in the registry;
\* and it is open only if no finalResponse deriving its key was processed
\* after it was opened and no tool-result arrived while it was the first
\* registry item with the result's prefix.  A tool-result that found an
\* earlier-registered child first leaves the span open.
C10_OpenOnlyWithoutClosingEvent ==
    pc = "returned" =>
       \A i \in DOMAIN spans :
          spans[i].inv = inv =>
             IF spans[i].ended = 0
             THEN /\ i \in Registered
                  /\ seen[i].finals = 0
                  /\ seen[i].firsts = 0
             ELSE /\ spans[i].ended = 1
                  /\ i \notin Registered
                  /\ seen[i].finals + seen[i].firsts = 1

C10_Witness ==
    /\ pc = "returned"
    /\ \E i, j \in DOMAIN spans :
          /\ spans[i].inv = inv /\ spans[j].inv = inv
          /\ IsToolSpan(spans[i]) /\ spans[i].ended = 0
          /\ seen[i].results = 1
          /\ IsToolSpan(spans[j]) /\ spans[j].ended = 1

(***************************************************************************)
(* Get-or-create.                                                          *)
(***************************************************************************)
\* the correlation keys the payload of e derives
DerivedKeys(e) ==
    (IF e.trace.routing.present THEN {RoutingKeyOf(e)} ELSE {})
    \cup (IF e.trace.orchestration.present THEN {OrchestrationKeyOf(e)} ELSE {})
    \cup (IF e.trace.orchestration.present
             /\ e.trace.orchestration.invocation # "none"
          THEN {ToolKeyOf(e)} ELSE {})

\* the spans of invocation n started under the key
StartedFor(ss, key, n) ==
    {i \in DOMAIN ss : ss[i].key = key /\ ss[i].inv = n}

\* the payload of e that derives the key as its routing or orchestration key
PayloadFor(e, key) ==
    IF e.trace.routing.present /\ key = RoutingKeyOf(e)
    THEN e.trace.routing ELSE e.trace.orchestration

\* C11: an event that derives a key found in the registry starts no span for
\* it and works on the span registered under it (a model-invocation-input
\* leaves its model on that span); an event that derives a key not in the
\* registry starts exactly one span for it.  So between two closes of a key
\* one invocation never has two unended spans started under it.
C11_GetOrCreateIdempotent ==
    [][LET e == event'
       IN  (Stepped(e) /\ WellFormed(e)) =>
           /\ \A key \in DerivedKeys(e) :
                 IF Contains(active_spans, key)
                 THEN /\ StartedFor(spans', key, inv) = StartedFor(spans, key, inv)
                      /\ (key # ToolKeyOf(e) /\ PayloadFor(e, key).hasMI) =>
                            spans'[Lookup(active_spans, key)]
                                .attrs["gen_ai.request.model"]
                              = Lit(PayloadFor(e, key).mi.foundationModel)
                 ELSE Cardinality(StartedFor(spans', key, inv))
                        = Cardinality(StartedFor(spans, key, inv)) + 1
           /\ \A i, j \in DOMAIN spans' :
                 (/\ spans'[i].key = spans'[j].key
                  /\ spans'[i].inv = spans'[j].inv
                  /\ spans'[i].ended = 0 /\ spans'[j].ended = 0) => i = j
      ]_vars

\* a tool invocation started the orchestration span and the tool span, and
\* a model-invocation-input for the same key then wrote on the first
C11_Witness ==
    /\ event.hasTrace /\ event.trace.orchestration.hasMI
    /\ Len(spans) = 2
    /\ spans[1].key = OrchestrationKeyOf(event)
    /\ spans[1].ended = 0
    /\ "gen_ai.request.model" \in DOMAIN spans[1].attrs
    /\ IsToolSpan(spans[2])

(***************************************************************************)
(* What ends a routing or orchestration span.                              *)
(***************************************************************************)
\* the step ends the span at index i of spans'
EndsSpan(i) ==
    /\ spans'[i].ended > 0
    /\ i \in DOMAIN spans => spans[i].ended = 0

\* e carries a finalResponse whose payload derives the key
FinalResponseFor(e, key) ==
    \/ /\ e.trace.routing.present /\ e.trace.routing.hasFinal
       /\ RoutingKeyOf(e) = key
    \/ /\ e.trace.orchestration.present /\ e.trace.orchestration.hasFinal
       /\ OrchestrationKeyOf(e) = key

\* C12: a step that ends a routing or orchestration span is a pass of the
\* loop body over a trace element holding a finalResponse whose payload
\* derives the key of that span.
C12_OnlyFinalResponseEndsAgentSpans ==
    [][\A i \in DOMAIN spans' :
          (~IsToolSpan(spans'[i]) /\ EndsSpan(i)) =>
             /\ Stepped(event') /\ WellFormed(event')
             /\ FinalResponseFor(event', spans'[i].key)
      ]_vars

(***************************************************************************)
(* The routing scenario, under SpecRouting.                                *)
(***************************************************************************)
\* the spans started in the running invocation
Mine(ss) == {i \in DOMAIN ss : ss[i].inv = inv}

\* the string attribute k of a span, << >> when the span does not carry it
AttrOf(sp, k) == IF k \in DOMAIN sp.attrs THEN sp.attrs[k] ELSE << >>

\* no finalResponse has been processed in the running invocation
NoFinalYet == \A i \in Mine(spans) : seen[i].finals = 0

\* C13: when a finalResponse is processed after one or more elements that
\* each hold a modelInvocationInput, all for one routing key and with no
\* finalResponse before it, the invocation has started exactly one span,
\* named "agent_routing"; that span is ended once, by this step, is out of
\* the registry, and carries the model of the last modelInvocationInput and
\* the text of the finalResponse, every write having reached it.
C13_RoutingSpanOpenedAndClosedOnce ==
    [][LET e == event'
       IN  (/\ Stepped(e) /\ e.trace.routing.hasFinal
            /\ event.hasTrace /\ event.trace.routing.hasMI
            /\ NoFinalYet) =>
           /\ Cardinality(Mine(spans')) = 1
           /\ \A i \in Mine(spans') :
                 /\ spans'[i].name = Lit("agent_routing")
                 /\ spans[i].ended = 0 /\ spans'[i].ended = 1
                 /\ spans'[i].late = {}
                 /\ ~Contains(active_spans', spans'[i].key)
                 /\ AttrOf(spans'[i], "gen_ai.request.model")
                      = Lit(event.trace.routing.mi.foundationModel)
                 /\ AttrOf(spans'[i], "gen_ai.completion.content")
                      = Lit(e.trace.routing.finalText)
      ]_vars

\* the stream [modelInvocationInput m1, finalResponse "hi"] of the first call
C13_Witness ==
    /\ inv = 1 /\ steps = 2 /\ pc = "streaming"
    /\ event.hasTrace /\ event.trace.routing.hasFinal
    /\ Len(spans) = 1
    /\ spans[1].name = Lit("agent_routing")
    /\ spans[1].ended = 1
    /\ AttrOf(spans[1], "gen_ai.request.model") = Lit("m1")
    /\ AttrOf(spans[1], "gen_ai.completion.content") = Lit("hi")

(***************************************************************************)
(* The accumulated text, under SpecChunks.                                 *)
(***************************************************************************)
\* what the chunk member of e adds to the text
DecodedChunk(e) ==
    IF e.chunk.kind = "bytes" THEN Decode(e.chunk.bytes).text ELSE << >>

\* C14: the accumulated text is empty when a call starts; a pass of the
\* loop body that does not raise appends the decoded bytes of the element's
\* chunk, and nothing when the element has no chunk, whatever trace the
\* element holds; no other step changes it; and at the end of the stream
\* the text written and returned is the accumulated text.
C14_OutputIsConcatenationOfChunks ==
    [][/\ inv' # inv => output' = << >>
       /\ (Stepped(event') /\ pc' = "streaming") =>
             output' = output \o DecodedChunk(event')
       /\ (inv' = inv /\ ~(Stepped(event') /\ pc' = "streaming")) =>
             output' = output
       /\ (pc = "streaming" /\ pc' = "returned") =>
             root'.completion = output
      ]_vars

\* the stream [chunk "h", trace, chunk C3 A9] drained
C14_Witness ==
    /\ pc = "returned" /\ steps = 3
    /\ event.chunk.kind = "bytes" /\ event.chunk.bytes = <<"C3", "A9">>
    /\ Len(spans) = 1
    /\ output = <<"h", "e-acute">>

\* C15: while the stream is being consumed nothing has been written on the
\* current span; when the call has returned the completion attributes have
\* been written once and hold the text returned; a call that raised has
\* written nothing.
C15_RootWrittenOnceAtTheEnd ==
    /\ pc = "streaming" => root = NoRoot
    /\ pc = "raised" => root.writes = 0
    /\ pc = "returned" => root.writes = 1 /\ root.completion = output

\* two chunks were consumed and the call returned their text
C15_Witness ==
    /\ pc = "returned" /\ steps = 2
    /\ output = <<"h", "i">>
    /\ root = [writes |-> 1, completion |-> <<"h", "i">>]

(***************************************************************************)
(* Payloads with several sub-shapes, with none, and with sub-shapes the    *)
(* handlers do not look for.                                               *)
(***************************************************************************)
\* the spans the step ends
EndedNow == {i \in DOMAIN spans' : EndsSpan(i)}

\* C16: when one payload holds a finalResponse beside other sub-shapes that
\* write attributes, the span the finalResponse closes carries at its end
\* what each of them writes: the model of a modelInvocationInput and the
\* name of an agentCollaboratorInvocationOutput, none of the writes arriving
\* after the end.
C16_SubShapesAppliedBeforeFinal ==
    [][LET e == event'
       IN  (Stepped(e) /\ WellFormed(e)) =>
           \A i \in EndedNow :
              /\ (FinalResponseFor(e, spans'[i].key)
                  /\ PayloadFor(e, spans'[i].key).hasMI) =>
                    AttrOf(spans'[i], "gen_ai.request.model")
                      = Lit(PayloadFor(e, spans'[i].key).mi.foundationModel)
              /\ (e.trace.routing.present /\ e.trace.routing.hasFinal
                  /\ e.trace.routing.hasCollab
                  /\ spans'[i].key = RoutingKeyOf(e)) =>
                    /\ AttrOf(spans'[i], "gen_ai.collaborator.name")
                         = Lit(e.trace.routing.collabName)
                    /\ spans'[i].late = {}
      ]_vars

\* the payload holds none of the sub-shapes the handlers look for
NoSubShape(d) ==
    /\ ~d.hasMI /\ ~d.hasMO /\ ~d.hasRationale /\ ~d.hasFinal

Unrecognized(e) ==
    /\ e.trace.routing.present =>
          NoSubShape(e.trace.routing) /\ ~e.trace.routing.hasCollab
    /\ e.trace.orchestration.present =>
          /\ NoSubShape(e.trace.orchestration)
          /\ e.trace.orchestration.invocation = "none"
          /\ ~e.trace.orchestration.hasResult

\* C17: a trace element in which no sub-shape is found, with or without a
\* routingClassifierTrace or orchestrationTrace member, starts no span, ends
\* none, writes nothing and leaves the registry as it was.
C17_UnrecognizedIsNoOp ==
    [][LET e == event'
       IN  (Stepped(e) /\ WellFormed(e) /\ Unrecognized(e)) =>
           /\ spans' = spans
           /\ active_spans' = active_spans
      ]_vars

\* C18: an orchestration payload whose invocationInput has no
\* actionGroupInvocationInput starts no tool span and adds no tool key to
\* the registry.
C18_OtherInvocationStartsNoToolSpan ==
    [][LET e == event'
       IN  (/\ Stepped(e) /\ WellFormed(e)
            /\ e.trace.orchestration.present
            /\ e.trace.orchestration.invocation = "other") =>
           /\ \A i \in DOMAIN spans' :
                 IsToolSpan(spans'[i]) => i \in DOMAIN spans
           /\ \A k \in DOMAIN active_spans' :
                 StartsWith(active_spans'[k].key,
                            ToolPrefix(OrchestrationKeyOf(e)))
                   => Contains(active_spans, active_spans'[k].key)
      ]_vars

\* the tool spans registered under the orchestration key, before the step
OpenToolChildren(key) ==
    {k \in DOMAIN active_spans :
        /\ IsToolSpan(spans[active_spans[k].span])
        /\ StartsWith(active_spans[k].key, ToolPrefix(key))}

\* the trace of e without its tool-result
WithoutResult(tr) == [tr EXCEPT !.orchestration.hasResult = FALSE]

C20_RationaleRecorded ==
    [][LET e == event'
       IN  (Stepped(e) /\ WellFormed(e)) =>
           /\ (e.trace.routing.present /\ e.trace.routing.hasRationale
               /\ Contains(active_spans', RoutingKeyOf(e))) =>
                 AttrOf(spans'[Lookup(active_spans', RoutingKeyOf(e))],
                        "gen_ai.reasoning")
                   = Lit(e.trace.routing.rationale)
           /\ (e.trace.orchestration.present
               /\ e.trace.orchestration.hasRationale
               /\ Contains(active_spans', OrchestrationKeyOf(e))) =>
                 AttrOf(spans'[Lookup(active_spans', OrchestrationKeyOf(e))],
                        "gen_ai.reasoning")
                   = Lit(e.trace.orchestration.rationale)
      ]_vars

\* C21: no pass of the loop body aborts the invocation: whatever the
\* element (a chunk without bytes, a fragment that does not decode, a trace
\* without a required member), the loop goes on to the next element, so that
\* every element is processed and the accumulated text is returned.
C21_ElementNeverAborts ==
    [][\A e \in ChunkStream : Stepped(e) => pc' = "streaming"]_vars

\* the prompt of mi does not expand: json.loads raises, or the test for the
\* messages member raises, or an item of the array is not a JSON object
ExpansionFails(mi) ==
    \/ mi.json \in {"fail", "scalar"}
    \/ mi.json = "messages" /\ \E k \in DOMAIN mi.messages : ~mi.messages[k].dict

\* the string attribute k the span registered under key carries before the
\* step, << >> when the key is not registered
AttrBefore(key, k) ==
    IF Contains(active_spans, key)
    THEN AttrOf(spans[Lookup(active_spans, key)], k)
    ELSE << >>

LaterPromptKeys ==
    {PromptKey(k, f) : k \in 1..2, f \in {".role", ".content"}}

\* C22: handling a model-invocation-input never raises; a prompt that is a
\* JSON document with a messages array gives, for message i, the attributes
\* prompt.i.role and prompt.i.content; a prompt whose parsing or expansion
\* fails gives the span the fallback prompt only (index 0, the raw text, no
\* attribute of a later index written by the step); in both cases
\* temperature, top-k and top-p are recorded, 0 when absent.
C22_PromptRecordedOrSingleFallback ==
    [][\A e \in PromptStream :
        (Stepped(e) /\ e.trace.orchestration.hasMI) =>
        LET mi == e.trace.orchestration.mi
            sp == spans'[Lookup(active_spans', OrchestrationKeyOf(e))]
        IN  /\ pc' = "streaming"
            /\ Contains(active_spans', OrchestrationKeyOf(e))
            /\ (mi.json = "messages" /\ ~ExpansionFails(mi)) =>
                  \A k \in DOMAIN mi.messages :
                     /\ AttrOf(sp, PromptKey(k - 1, ".role"))
                          = Lit(IF mi.messages[k].hasRole
                                THEN mi.messages[k].role ELSE "user")
                     /\ AttrOf(sp, PromptKey(k - 1, ".content"))
                          = Lit(IF mi.messages[k].hasContent
                                THEN mi.messages[k].content ELSE "")
            /\ ExpansionFails(mi) =>
                  /\ AttrOf(sp, "gen_ai.prompt.0.content") = Lit(mi.text)
                  /\ AttrOf(sp, "gen_ai.prompt.0.role") = Lit("user")
                  /\ \A k \in LaterPromptKeys :
                        AttrOf(sp, k) = AttrBefore(OrchestrationKeyOf(e), k)
            /\ sp.nums["gen_ai.request.temperature"]
                 = (IF "temperature" \in mi.given THEN mi.temperature ELSE 0)
            /\ sp.nums["gen_ai.request.top_k"]
                 = (IF "topK" \in mi.given THEN mi.topK ELSE 0)
            /\ sp.nums["gen_ai.request.top_p"]
                 = (IF "topP" \in mi.given THEN mi.topP ELSE 0)
      ]_vars


\* the position of the first item of the array that is not a JSON object,
\* Len + 1 when every item is one
FirstBad(msgs) ==
    IF \A k \in DOMAIN msgs : msgs[k].dict THEN Len(msgs) + 1
    ELSE CHOOSE k \in DOMAIN msgs :
            ~msgs[k].dict /\ \A j \in 1..(k - 1) : msgs[j].dict

\* C22 (amended): handling a model-invocation-input never raises; message i
\* of a messages array whose items are all JSON objects gives prompt.i.role
\* and prompt.i.content; when parsing or expansion fails, prompt.0 holds
\* the raw text with role "user", and the messages at indexes 1 and above
\* that precede the first item that is not a JSON object keep the
\* attributes the expansion wrote before it failed, no other indexed prompt
\* attribute being written by the step; temperature, top-k and top-p are
\* recorded in all cases, 0 when absent.
C22_PromptRecordedOrFallback ==
    [][\A e \in PromptStream :
        (Stepped(e) /\ e.trace.orchestration.hasMI) =>
        LET mi == e.trace.orchestration.mi
            sp == spans'[Lookup(active_spans', OrchestrationKeyOf(e))]
            written == IF mi.json = "messages"
                       THEN 1..(FirstBad(mi.messages) - 1) ELSE {}
        IN  /\ pc' = "streaming"
            /\ Contains(active_spans', OrchestrationKeyOf(e))
            /\ \A k \in written :
                  (k > 1 \/ ~ExpansionFails(mi)) =>
                     /\ AttrOf(sp, PromptKey(k - 1, ".role"))
                          = Lit(IF mi.messages[k].hasRole
                                THEN mi.messages[k].role ELSE "user")
                     /\ AttrOf(sp, PromptKey(k - 1, ".content"))
                          = Lit(IF mi.messages[k].hasContent
                                THEN mi.messages[k].content ELSE "")
            /\ ExpansionFails(mi) =>
                  /\ AttrOf(sp, "gen_ai.prompt.0.content") = Lit(mi.text)
                  /\ AttrOf(sp, "gen_ai.prompt.0.role") = Lit("user")
            /\ \A k \in 1..2 : \A f \in {".role", ".content"} :
                  (k + 1) \notin written =>
                     AttrOf(sp, PromptKey(k, f))
                       = AttrBefore(OrchestrationKeyOf(e), PromptKey(k, f))
            /\ sp.nums["gen_ai.request.temperature"]
                 = (IF "temperature" \in mi.given THEN mi.temperature ELSE 0)
            /\ sp.nums["gen_ai.request.top_k"]
                 = (IF "topK" \in mi.given THEN mi.topK ELSE 0)
            /\ sp.nums["gen_ai.request.top_p"]
                 = (IF "topP" \in mi.given THEN mi.topP ELSE 0)
      ]_vars

\* the first element of the stream held a messages array whose third item
\* is not a JSON object: the span carries the raw text at index 0, the
\* second message at index 1, and the inference parameters
C22_Witness ==
    /\ pc = "streaming" /\ steps = 1 /\ Len(spans) = 1
    /\ event.hasTrace /\ event.trace.orchestration.hasMI
    /\ event.trace.orchestration.mi.json = "messages"
    /\ ExpansionFails(event.trace.orchestration.mi)
    /\ event.trace.orchestration.mi.given = {"topK"}
    /\ AttrOf(spans[1], "gen_ai.prompt.0.content")
         = Lit(event.trace.orchestration.mi.text)
    /\ AttrOf(spans[1], "gen_ai.prompt.0.role") = Lit("user")
    /\ AttrOf(spans[1], "gen_ai.prompt.1.role") = Lit("user")
    /\ spans[1].nums["gen_ai.request.top_k"] = 250
    /\ spans[1].nums["gen_ai.request.temperature"] = 0

\* the logical units of work element e refers to, each with the registry
\* key the handlers derive for it
UnitsOf(e) ==
    LET unit(cat, tid, tool, key) ==
            [agent |-> e.trace.agentId, session |-> e.trace.sessionId,
             category |-> cat, traceId |-> tid, tool |-> tool, key |-> key]
    IN  (IF e.trace.routing.present
         THEN {unit("routing", e.trace.routing.traceId, Empty,
                    RoutingKeyOf(e))}
         ELSE {})
        \cup (IF e.trace.orchestration.present
              THEN {unit("orchestration", e.trace.orchestration.traceId,
                         Empty, OrchestrationKeyOf(e))}
              ELSE {})
        \cup (IF e.trace.orchestration.present
                 /\ e.trace.orchestration.invocation = "actionGroup"
              THEN {unit("tool", e.trace.orchestration.traceId,
                         e.trace.orchestration.function, ToolKeyOf(e))}
              ELSE {})

\* v is a tool unit under the orchestration unit u
ToolUnder(u, v) ==
    /\ u.category = "orchestration" /\ v.category = "tool"
    /\ v.agent = u.agent /\ v.session = u.session /\ v.traceId = u.traceId

\* C23: registry keys identify units of work injectively: of two elements
\* processed one after the other, a unit of the one and a unit of the other
\* have the same key only if they agree on agent id, session id, category,
\* trace id and tool name, and the key of the one starts with the tool
\* prefix of the other only if it is a tool unit under it.
C23_KeysInjective ==
    [][\A e \in ShapeElements :
        (Stepped(e) /\ steps > 0 /\ WellFormed(e) /\ WellFormed(event)) =>
        \A u \in UnitsOf(event), v \in UnitsOf(e) :
           /\ u.key = v.key => u = v
           /\ (u.category = "orchestration"
               /\ StartsWith(v.key, ToolPrefix(u.key))) => ToolUnder(u, v)
           /\ (v.category = "orchestration"
               /\ StartsWith(u.key, ToolPrefix(v.key))) => ToolUnder(v, u)
      ]_vars

\* the model-invocation-output of e and the key its handler writes under
OutputOf(e) ==
    IF e.trace.orchestration.present THEN e.trace.orchestration.mo
    ELSE e.trace.routing.mo
OutputKeyOf(e) ==
    IF e.trace.orchestration.present THEN OrchestrationKeyOf(e)
    ELSE RoutingKeyOf(e)

\* C24: after a model-invocation-output is handled, the span's total-token
\* attribute is the sum of its prompt-token and completion-token
\* attributes, each being the count of metadata.usage or 0 when absent.
C24_TotalIsSumOfCounts ==
    [][\A e \in TokenStream :
        (/\ Stepped(e)
         /\ e.trace.orchestration.present => e.trace.orchestration.hasMO
         /\ e.trace.routing.present => e.trace.routing.hasMO) =>
        LET mo == OutputOf(e)
            sp == spans'[Lookup(active_spans', OutputKeyOf(e))]
        IN  /\ Contains(active_spans', OutputKeyOf(e))
            /\ sp.nums["gen_ai.usage.prompt_tokens"]
                 = (IF "inputTokens" \in mo.given THEN mo.inputTokens ELSE 0)
            /\ sp.nums["gen_ai.usage.completion_tokens"]
                 = (IF "outputTokens" \in mo.given THEN mo.outputTokens ELSE 0)
            /\ sp.nums["gen_ai.usage.total_tokens"]
                 = sp.nums["gen_ai.usage.prompt_tokens"]
                   + sp.nums["gen_ai.usage.completion_tokens"]
      ]_vars

\* counts 12 and 34 were handled and the span carries the total 46, after
\* an output without usage had given the total 0 to the routing span
C24_Witness ==
    /\ steps = 2 /\ Len(spans) = 2
    /\ event.hasTrace /\ event.trace.orchestration.hasMO
    /\ event.trace.orchestration.mo.given = {"inputTokens", "outputTokens"}
    /\ spans[1].nums["gen_ai.usage.prompt_tokens"] = 0
    /\ spans[1].nums["gen_ai.usage.completion_tokens"] = 0
    /\ spans[1].nums["gen_ai.usage.total_tokens"] = 0
    /\ spans[2].nums["gen_ai.usage.prompt_tokens"] = 12
    /\ spans[2].nums["gen_ai.usage.completion_tokens"] = 34
    /\ spans[2].nums["gen_ai.usage.total_tokens"] = 46

\* the element holds a collaborator output and no finalResponse, and its
\* routing span is started by this step
FreshCollaborator(e) ==
    /\ Stepped(e) /\ e.trace.routing.present
    /\ e.trace.routing.hasCollab /\ ~e.trace.routing.hasFinal
    /\ ~Contains(active_spans, RoutingKeyOf(e))

\* the text of the alias string after the marker, as "<alias>/<id>": id is
\* what follows the first path separator after the marker
AfterMarker(arn) == Slice(arn, Find(arn, S_marker) + Len(S_marker))
HasAliasAndId(arn) ==
    Find(arn, S_marker) >= 0 /\ Find(AfterMarker(arn), <<"/">>) >= 0
IdAfterAlias(arn) ==
    Slice(AfterMarker(arn), Find(AfterMarker(arn), <<"/">>) + 1)

\* C25: extract_agent_id_from_arn applied to an alias string holding the
\* marker followed by "<alias>/<id>" yields "<id>", and applied to a string
\* without the marker yields no identifier; the routing span carries the
\* identifier as its collaborator agent id, or no such attribute.
C25_ExtractYieldsId ==
    [][\A e \in ArnStream : FreshCollaborator(e) =>
        LET arn == e.trace.routing.arn
            sp == spans'[Lookup(active_spans', RoutingKeyOf(e))]
        IN  /\ HasAliasAndId(arn) =>
                  /\ extract_agent_id_from_arn(arn).some
                  /\ extract_agent_id_from_arn(arn).id = IdAfterAlias(arn)
                  /\ AttrOf(sp, "gen_ai.collaborator.agent_id")
                       = IdAfterAlias(arn)
            /\ Find(arn, S_marker) < 0 =>
                  /\ ~extract_agent_id_from_arn(arn).some
                  /\ "gen_ai.collaborator.agent_id" \notin DOMAIN sp.attrs
      ]_vars

\* the remainder of the alias string after the first path separator at or
\* after the start of the marker
AfterFirstSeparator(arn) ==
    Slice(Slice(arn, Find(arn, S_marker)),
          Find(Slice(arn, Find(arn, S_marker)), <<"/">>) + 1)

\* C26: extract_agent_id_from_arn yields no identifier if and only if the
\* marker is absent from the string; whenever the marker occurs, index 0
\* included, the result is the remainder of the string after the first
\* path separator that follows the start of the marker.
C26_NoneIffMarkerAbsent ==
    [][\A e \in ArnStream : FreshCollaborator(e) =>
        LET arn == e.trace.routing.arn
            sp == spans'[Lookup(active_spans', RoutingKeyOf(e))]
        IN  /\ extract_agent_id_from_arn(arn).some <=> Find(arn, S_marker) >= 0
            /\ ("gen_ai.collaborator.agent_id" \in DOMAIN sp.attrs)
                 <=> Find(arn, S_marker) >= 0
            /\ Find(arn, S_marker) >= 0 =>
                  /\ extract_agent_id_from_arn(arn).id = AfterFirstSeparator(arn)
                  /\ AttrOf(sp, "gen_ai.collaborator.agent_id")
                       = AfterFirstSeparator(arn)
      ]_vars

\* the keys registered under the tool prefix of the key
ChildKeys(active, key) ==
    {active[k].key : k \in {j \in DOMAIN active :
                              StartsWith(active[j].key, ToolPrefix(key))}}

\* the spans started by the step
StartedNow == (DOMAIN spans') \ (DOMAIN spans)

\* an orchestration span of the key was ended earlier in the invocation
ClosedBefore(key) ==
    \E i \in Mine(spans) : spans[i].key = key /\ spans[i].ended >= 1

\* C27: tool spans do not outlive their parent in the registry: when a
\* finalResponse closes the orchestration span of key P no tool child of P
\* is registered, and a tool-result for P that arrives after P was closed
\* starts no new orchestration span for P.
C27_ToolSpansDoNotOutliveParent ==
    [][\A e \in Elements :
        (Stepped(e) /\ WellFormed(e) /\ e.trace.orchestration.present) =>
        /\ e.trace.orchestration.hasFinal =>
              ChildKeys(active_spans', OrchestrationKeyOf(e)) = {}
        /\ (e.trace.orchestration.hasResult
            /\ ClosedBefore(OrchestrationKeyOf(e))
            /\ ~Contains(active_spans, OrchestrationKeyOf(e))) =>
              \A i \in StartedNow : spans'[i].key # OrchestrationKeyOf(e)
      ]_vars

\* C27 (amended): a finalResponse for key P ends and removes the
\* orchestration span of P only: the tool children of P registered at that
\* moment stay registered and untouched; and a tool-result for P arriving
\* while P is not registered, closed before or not, starts one new
\* orchestration span for P, which is registered under P.
C27_ToolSpansOutliveParent ==
    [][\A e \in Elements :
        (Stepped(e) /\ WellFormed(e) /\ e.trace.orchestration.present
         /\ e.trace.orchestration.invocation = "none") =>
        LET P == OrchestrationKeyOf(e)
        IN  /\ (e.trace.orchestration.hasFinal
                /\ ~e.trace.orchestration.hasResult) =>
                  /\ ~Contains(active_spans', P)
                  /\ ChildKeys(active_spans', P) = ChildKeys(active_spans, P)
                  /\ \A k \in ChildKeys(active_spans, P) :
                        /\ Lookup(active_spans', k) = Lookup(active_spans, k)
                        /\ spans'[Lookup(active_spans, k)]
                             = spans[Lookup(active_spans, k)]
            /\ (e.trace.orchestration.hasResult
                /\ ~e.trace.orchestration.hasFinal
                /\ ~Contains(active_spans, P)) =>
                  /\ Cardinality(StartedNow) = 1
                  /\ \A i \in StartedNow :
                        /\ spans'[i].key = P /\ ~IsToolSpan(spans'[i])
                        /\ spans'[i].ended = 0
                        /\ Contains(active_spans', P)
                        /\ Lookup(active_spans', P) = i
      ]_vars

\* a tool was invoked under P, a finalResponse closed P while the tool span
\* was open, and the tool-result that came next closed the tool span and
\* started a second orchestration span for P
C27_Witness ==
    /\ steps = 3 /\ Len(spans) = 3
    /\ event.hasTrace /\ event.trace.orchestration.hasResult
    /\ spans[1].key = OrchestrationKeyOf(event) /\ spans[1].ended = 1
    /\ IsToolSpan(spans[2]) /\ spans[2].ended = 1
    /\ spans[2].end > spans[1].end
    /\ AttrOf(spans[2], "gen_ai.tool.output")
         = Lit(event.trace.orchestration.resultText)
    /\ spans[3].key = OrchestrationKeyOf(event) /\ spans[3].ended = 0
    /\ Keys(active_spans) = {OrchestrationKeyOf(event)}

\* the element invokes a tool and holds no result, or holds a result and
\* invokes no tool
InvokesTool(e) ==
    /\ e.trace.orchestration.present
    /\ e.trace.orchestration.invocation = "actionGroup"
    /\ ~e.trace.orchestration.hasResult
BringsResult(e) ==
    /\ e.trace.orchestration.present /\ e.trace.orchestration.hasResult
    /\ e.trace.orchestration.invocation = "none"

ToolSpansStartedNow == {i \in StartedNow : IsToolSpan(spans'[i])}

\* C28: every invocation of a tool under an orchestration key starts a tool
\* span of its own, also when an earlier invocation of the same tool under
\* the same key has not had its result yet, so that N invocations give N
\* tool spans and each result is recorded on a distinct span.
C28_EveryInvocationStartsASpan ==
    [][\A e \in ToolStream : (Stepped(e) /\ InvokesTool(e)) =>
          /\ Cardinality(ToolSpansStartedNow) = 1
          /\ \A i \in ToolSpansStartedNow : spans'[i].key = ToolKeyOf(e)
      ]_vars

\* C28 (amended): an invocation of a tool whose key (orchestration key,
\* tool name) is not registered starts one tool span and registers it; an
\* invocation whose key is registered, the earlier invocation of the same
\* tool having had no result yet, starts no span and leaves the registered
\* one as it is.  A tool-result ends the earliest-registered tool span of
\* the orchestration key with the result text, removes its key and touches
\* no other span; with no tool span registered under the key it is
\* dropped.  Invocation/result pairs that do not overlap thus give one span
\* per pair, the i-th carrying the i-th result text; two overlapping
\* invocations of one tool give one span, which carries the first result,
\* the second result being dropped.
C28_OneSpanPerRegisteredTool ==
    [][\A e \in ToolStream : Stepped(e) =>
        LET P == OrchestrationKeyOf(e)
            K == ToolKeyOf(e)
            kids == Children(active_spans, P)
        IN  /\ (InvokesTool(e) /\ ~Contains(active_spans, K)) =>
                  /\ Cardinality(ToolSpansStartedNow) = 1
                  /\ \A i \in ToolSpansStartedNow :
                        /\ spans'[i].key = K /\ spans'[i].ended = 0
                        /\ Lookup(active_spans', K) = i
                  /\ \A i \in DOMAIN spans : spans'[i] = spans[i]
            /\ (InvokesTool(e) /\ Contains(active_spans, K)) =>
                  /\ StartedNow = {}
                  /\ spans' = spans /\ active_spans' = active_spans
            /\ (BringsResult(e) /\ kids # {}) =>
                  LET first == active_spans[CHOOSE k \in Eldest(kids) : TRUE]
                  IN  /\ ToolSpansStartedNow = {}
                      /\ spans[first.span].ended = 0
                      /\ spans'[first.span].ended = 1
                      /\ AttrOf(spans'[first.span], "gen_ai.tool.output")
                           = Lit(e.trace.orchestration.resultText)
                      /\ ~Contains(active_spans', first.key)
                      /\ \A i \in (DOMAIN spans) \ {first.span} :
                            spans'[i] = spans[i]
            /\ (BringsResult(e) /\ kids = {}) =>
                  /\ ToolSpansStartedNow = {}
                  /\ \A i \in DOMAIN spans : spans'[i] = spans[i]
      ]_vars

\* two pairs of one tool, one after the other: two tool spans, ended in
\* order, the first with the first result and the second with the second
C28_Witness ==
    /\ steps = 4 /\ Len(spans) = 3 /\ pc = "streaming"
    /\ ~IsToolSpan(spans[1])
    /\ IsToolSpan(spans[2]) /\ IsToolSpan(spans[3])
    /\ spans[2].key = spans[3].key
    /\ spans[2].ended = 1 /\ spans[3].ended = 1
    /\ spans[2].end < spans[3].start
    /\ AttrOf(spans[2], "gen_ai.tool.output") = Lit("r1")
    /\ AttrOf(spans[3], "gen_ai.tool.output") = Lit("r2")
    /\ Keys(active_spans) = {spans[1].key}

\* C29: when the entry point reaches provider.shutdown(), the registry is
\* empty and every span the correlator started during the invocation has
\* been ended exactly once, but for the leftover spans whose end() raised
\* in the clean-up loop, which were not ended; an end() that raises does
\* not keep the other leftover spans, before or after it in the registry,
\* from being ended.
C29_AllSpansEndedAtShutdown ==
    pc = "shutdown" =>
        /\ active_spans = << >>
        /\ DOMAIN seen = DOMAIN spans
        /\ \A i \in DOMAIN spans :
              /\ seen[i].raised = 0 => spans[i].ended = 1
              /\ seen[i].raised # 0 =>
                    seen[i].raised = 1 /\ spans[i].ended = 0

\* three spans were started; a finalResponse ended the first, the other
\* two were left in the registry; in the clean-up the end() of the second
\* raised and the third was ended all the same
C29_Witness ==
    /\ pc = "shutdown" /\ Len(spans) = 3
    /\ spans[1].ended = 1 /\ seen[1].finals = 1 /\ seen[1].raised = 0
    /\ spans[2].ended = 0 /\ seen[2].raised = 1
    /\ spans[3].ended = 1 /\ seen[3].raised = 0
    /\ spans[3].end > spans[1].end
    /\ active_spans = << >>

RECURSIVE ReplyText(_)
ReplyText(els) ==
    IF els = << >> THEN Empty
    ELSE (IF Head(els).kind = "chunk" THEN Decode(Head(els).bytes).text
          ELSE Empty) \o ReplyText(Tail(els))

\* C31: when the instrumented call has returned a response with a
\* completion stream and the entry point has iterated response['completion'],
\* the entry point has obtained every chunk fragment of the reply: what it
\* printed is the reply's text.
C31_CallerObtainsEveryFragment ==
    wrapper.pc = "printed" /\ wrapper.hasCompletion =>
        wrapper.printed = ReplyText(wrapper.reply)

\* the reply held the chunks "h" and "i": the wrapper recorded both on the
\* root span and returned, and the entry point printed nothing
C31_NothingLeftToPrint ==
    /\ wrapper.pc = "printed" /\ wrapper.hasCompletion
    /\ ReplyText(wrapper.reply) = <<"h", "i">>
    /\ wrapper.status = "OK" /\ wrapper.outputValue = <<"i">>
    /\ {"chunk.0.content", "chunk.1.content"} \subseteq wrapper.attrs
    /\ wrapper.printed = Empty
====
